---- MODULE Spec2Model ----
(***************************************************************************)
(* Model of the odp-deferred facilitator scheme (OdpDeferredEvmScheme):    *)
(* verify and settle as asynchronous handlers over the in-memory session   *)
(* store.  Every handler is cut into the segments that run between two     *)
(* awaits; one segment is one atomic action (single-threaded event loop).  *)
(* Session records are heap objects: the store and every running call hold *)
(* references to them, as Map<string, record> does in the source.          *)
(***************************************************************************)
EXTENDS Integers, Sequences, FiniteSets, Bags, TLC

(* ------------------------------ bounds -------------------------------- *)

\* number of calls that may be in flight at the same time
MaxCalls == 2
\* approval.maxSpend of the modelled session, in units of one request price
MaxSpendUnits == 2
\* last clock value (seconds) the model advances to
MaxTime == 1
\* concurrent createPaymentPayload calls of the client, and payloads it returns in all
MaxClientCalls == 2
MaxPayloads == 3
\* debit-wallet balance of every payer at start, in the same units
StartBalance == 3

Calls == 1 .. MaxCalls
ObjIds == 1 .. (MaxCalls + 1)

(* --------------------------- decimal strings -------------------------- *)
\* A decimal string is a sequence of digits; <<>> stands for undefined.

RECURSIVE DecStr(_)
\* bigint.toString(): canonical decimal representation
DecStr(n) == IF n < 10 THEN <<n>> ELSE DecStr(n \div 10) \o <<n % 10>>

RECURSIVE BigInt(_)
\* BigInt(string): value of a digit string; leading zeros are accepted
BigInt(s) == IF Len(s) = 0 THEN 0
             ELSE BigInt(SubSeq(s, 1, Len(s) - 1)) * 10 + s[Len(s)]

Undef == <<>>

(* ------------------------------ addresses ----------------------------- *)
\* An address is an identity plus the spelling it arrived in.

Addr(id) == [id |-> id, cs |-> TRUE]
getAddress(a) == [a EXCEPT !.cs = TRUE]
isAddressEqual(a, b) == a.id = b.id

ZERO_BYTES32 == "0x00"

\* keccak256(encodePacked(sorted lowercase addresses)), zero hash when empty
hashAuthorizedProcessors(addresses) ==
    LET ids == {a.id : a \in addresses} IN
    IF ids = {} THEN ZERO_BYTES32
    ELSE IF ids = {"fac"} THEN "h:fac"
    ELSE IF ids = {"other"} THEN "h:other"
    ELSE "h:fac+other"

normalizeRequestHash(requestHash) ==
    IF requestHash = "undef" THEN ZERO_BYTES32 ELSE requestHash

(* --------------------------- configuration ---------------------------- *)

Scheme == "odp-deferred"
Payers == {"p1", "p2"}
SignerAddresses == {Addr("fac")}

\* a signature is named by who made it over the message it travels with; one
\* signer can produce several byte strings that verify for the same message
SigOf(p) == IF p = "p1" THEN "sig_p1" ELSE "sig_p2"
AltSigOf(p) == IF p = "p1" THEN "sig_p1_alt" ELSE "sig_p2_alt"
\* signer.verifyTypedData
verifyTypedData(payer, signature) == signature \in {SigOf(payer.id), AltSigOf(payer.id)}

\* the facilitator's configuration after the constructor
Config == [settlementContract |-> Addr("settle"),
           debitWallet |-> Addr("wallet"),
           withdrawDelaySeconds |-> DecStr(1)]

isAuthorizedProcessor(authorizedProcessors) ==
    \/ authorizedProcessors = {}
    \/ \E allowed \in authorizedProcessors :
         \E signer \in {getAddress(s) : s \in SignerAddresses} :
            isAddressEqual(signer, allowed)

(* ------------------------------- inputs ------------------------------- *)

SessionIds == {"s1"}
Expiry == MaxTime + 1

\* requirements.extra as the resource server issues it for session sid
GoodExtra(sid) ==
    [sessionId |-> sid,
     startNonce |-> DecStr(0),
     maxSpend |-> DecStr(MaxSpendUnits),
     expiry |-> DecStr(Expiry),
     settlementContract |-> Addr("settle"),
     debitWallet |-> Addr("wallet"),
     withdrawDelaySeconds |-> DecStr(1),
     authorizedProcessors |-> {},
     requestHash |-> "undef",
     maxAmountPerReceipt |-> Undef]

GoodRequirements(sid) ==
    [scheme |-> Scheme,
     network |-> "eip155:84532",
     amount |-> DecStr(1),
     asset |-> Addr("usdc"),
     payTo |-> Addr("payee"),
     maxTimeoutSeconds |-> 1,
     extra |-> GoodExtra(sid)]

\* the SessionApproval a client of payer p builds from the requirements
GoodApproval(sid, p) ==
    [payer |-> Addr(p),
     payee |-> Addr("payee"),
     asset |-> Addr("usdc"),
     maxSpend |-> DecStr(MaxSpendUnits),
     expiry |-> DecStr(Expiry),
     sessionId |-> sid,
     startNonce |-> DecStr(0),
     authorizedProcessorsHash |-> ZERO_BYTES32]

Receipt(sid, nonce, amount, deadline) ==
    [sessionId |-> sid, nonce |-> nonce, amount |-> amount,
     deadline |-> deadline, requestHash |-> ZERO_BYTES32]

\* PaymentPayload and PaymentRequirements of one well-formed request
Request(sid, p, withApproval, receipt, signedBy) ==
    [accepted |-> [scheme |-> Scheme, network |-> "eip155:84532"],
     requirements |-> GoodRequirements(sid),
     hasReceipt |-> TRUE,
     receipt |-> receipt,
     receiptSignature |-> SigOf(signedBy),
     hasApproval |-> withApproval,
     sessionApproval |-> GoodApproval(sid, p),
     sessionSignature |-> IF withApproval THEN SigOf(p) ELSE ""]

\* receipt nonces a client may send: canonical ones and a leading-zero form
NonceStrs == {DecStr(n) : n \in 0 .. MaxSpendUnits} \cup {<<0, 1>>}

\* parseOdpDeferredExtras: "" when the extras parse, else the error message
parseError(extra) ==
    IF extra.sessionId = "" THEN "Invalid odp-deferred extra.sessionId"
    ELSE IF extra.startNonce = Undef THEN "Invalid odp-deferred extra.startNonce"
    ELSE IF extra.maxSpend = Undef THEN "Invalid odp-deferred extra.maxSpend"
    ELSE IF extra.expiry = Undef THEN "Invalid odp-deferred extra.expiry"
    ELSE ""

\* parseOdpDeferredExtras: the parsed extras (addresses in checksum form)
parseOdpDeferredExtras(extra) ==
    [extra EXCEPT !.settlementContract = getAddress(@),
                  !.authorizedProcessors = {getAddress(a) : a \in @}]

(* ------------------------------- state -------------------------------- *)

VARIABLES
    heap,        \* session record objects, by object id
    store,       \* InMemoryOdpDeferredStore.sessions: sessionId -> object id, 0 = none
    pc,          \* per call: the await it is suspended at, or "idle"
    loc,         \* per call: its local variables
    now,         \* Date.now() / 1000
    balance,     \* debit wallet: balanceOf(payer, asset) per payer
    chainDelay,  \* debit wallet: withdrawDelaySeconds()
    config,      \* settlementMode and maxReceiptsPerSettlement of the scheme
    accepted,    \* history: bag of the receipts (nonce, amount) verify returned isValid: true for
    last,        \* history: the most recent return of a call
    credit,      \* FluxaCreditFacilitatorScheme: the call in progress and its latest result
    withdrawRequests,  \* debit wallet: withdrawRequests[payer][asset], amount 0 = none
    client,      \* OdpDeferredEvmScheme of the client: sessions, calls in progress, payloads returned
    chainSessions,  \* OdpSettlementWallet.sessions: sessionId -> <<state>>, << >> = never opened
    server       \* the facilitator service around the scheme: pendingSessions and its scheduler

vars == <<heap, store, pc, loc, now, balance, chainDelay, config, accepted, last, credit,
         withdrawRequests, client, chainSessions, server>>

\* the credit scheme with no call in progress and no call made yet
CreditIdle ==
    [pc |-> "idle", inp |-> << >>, pending |-> << >>,
     res |-> [op |-> "none", inp |-> << >>, ok |-> FALSE, reason |-> "", payer |-> "",
              transaction |-> << >>, fetched |-> FALSE, again |-> FALSE]]

\* the client scheme after construction (register.ts lines 51-54): no session,
\* no createPaymentPayload call in progress, no payload returned
ClientIdle ==
    [sessions |-> 0,
     states |-> << >>,
     started |-> 0,
     calls |-> [c \in 1 .. MaxClientCalls |->
                   [pc |-> "idle", sessionState |-> 0, nonce |-> 0,
                    includeSessionApproval |-> FALSE]],
     returned |-> << >>]

IdleLoc == [op |-> "none",
            inp |-> Request("s1", "p1", FALSE, Receipt("s1", DecStr(0), DecStr(1), DecStr(0)), "p1"),
            rec |-> 0,
            entry |-> << >>,
            approval |-> GoodApproval("s1", "p1"),
            balance |-> 0,
            batch |-> <<>>, startNonce |-> 0, endNonce |-> 0, total |-> 0,
            txStatus |-> "none"]

\* OdpDeferredStore.getSession
getSession(st, sessionId) == st[sessionId]

\* OdpDeferredStore.setSession
setSession(st, sessionId, rec) == [st EXCEPT ![sessionId] = rec]

\* the stored record of a session as a sequence: empty when there is none
StoredView(h, st, sessionId) ==
    IF st[sessionId] = 0 THEN << >> ELSE <<h[st[sessionId]]>>

\* objects no reference reaches are dropped (garbage collection)
Collect(h, st, lc) ==
    LET refs == ({st[s] : s \in DOMAIN st} \cup {lc[c].rec : c \in Calls}) \ {0}
    IN [o \in (DOMAIN h) \cap refs |-> h[o]]

\* id of a newly allocated object
NewObj(h) == CHOOSE o \in ObjIds \ DOMAIN h : \A q \in ObjIds \ DOMAIN h : o <= q

(* ------------- facilitator services: the pending sessions -------------- *)
\* The facilitator services keep pendingSessions, a Map from sessionId to an
\* entry, next to the scheme: part_012 and route.ts count the receipts of a
\* session and flag the session while their scheduler settles it,
\* facilitator.ts records the time of the last receipt. server.kind names the
\* service ("none": the scheme is called directly). The Map is a sequence in
\* insertion order; a deleted entry stays as a tombstone (live = FALSE) so
\* that an iterator suspended at an await keeps its place, as a Map iterator
\* does. server.runs are the runAutoSettlement calls in progress and
\* server.sync is the run whose synchronous code has the event loop.

\* the most runAutoSettlement calls in progress at once
MaxRuns == 2
\* autoSettleAfterSeconds of facilitator.ts
AutoSettleAfter == 0

\* a service after start-up: nothing pending, no run in progress
ServerIdle(kind) ==
    [kind |-> kind,
     pending |-> << >>,
     runs |-> [r \in 1 .. MaxRuns |->
                  [at |-> "idle", pos |-> 0, call |-> 0, sid |-> "", settleCount |-> 0,
                   entryCount |-> 0, startedAt |-> 0, inp |-> << >>]],
     sync |-> 0,
     stopped |-> FALSE]

\* pendingSessions.get: the place of the entry of a session, 0 for undefined
pendingGet(m, sessionId) ==
    LET S == {i \in DOMAIN m : m[i].live /\ m[i].sid = sessionId}
    IN IF S = {} THEN 0 ELSE CHOOSE i \in S : TRUE

\* pendingSessions.set: an existing key keeps its place, a new one goes last
pendingSet(m, sessionId, e) ==
    IF pendingGet(m, sessionId) = 0 THEN Append(m, e)
    ELSE [m EXCEPT ![pendingGet(m, sessionId)] = e]

\* pendingSessions.delete; the tombstones go once no iterator is left that
\* could pass them (iterating is FALSE)
pendingDelete(m, sessionId, iterating) ==
    LET marked ==
        [i \in DOMAIN m |->
            IF m[i].live /\ m[i].sid = sessionId
            THEN [sid |-> sessionId, live |-> FALSE, inp |-> << >>, receiptCount |-> 0,
                  settling |-> FALSE, lastReceiptAt |-> 0]
            ELSE m[i]]
    IN IF iterating THEN marked ELSE SelectSeq(marked, LAMBDA e : e.live)

\* an entry that POST /verify stores and that restarts the settling flag
verifiedEntryClearsSettling(kind, existing, sessionId, inp, t) ==
    [sid |-> sessionId, live |-> TRUE, inp |-> <<inp>>,
     receiptCount |-> IF kind = "example" THEN 0
                      ELSE IF existing # << >> THEN existing[1].receiptCount + 1 ELSE 1,
     settling |-> FALSE,
     lastReceiptAt |-> IF kind = "example" THEN t ELSE 0]

\* POST /verify, the entry stored after isValid: true: part_012 lines 163-171,
\* route.ts lines 183-189, facilitator.ts lines 155-159
verifiedEntry(kind, existing, sessionId, inp, t) ==
    [sid |-> sessionId, live |-> TRUE, inp |-> <<inp>>,
     receiptCount |-> IF kind = "example" THEN 0
                      ELSE IF existing # << >> THEN existing[1].receiptCount + 1 ELSE 1,
     settling |-> IF existing # << >> THEN existing[1].settling ELSE FALSE,
     lastReceiptAt |-> IF kind = "example" THEN t ELSE 0]

\* the iterator of run r advances: the place of the next entry, 0 at the end
nextEntry(s, r) ==
    LET S == {i \in DOMAIN s.pending : i > s.runs[r].pos /\ s.pending[i].live}
    IN IF S = {} THEN 0 ELSE CHOOSE i \in S : \A j \in S : i <= j

\* runAutoSettlement, what the loop body does with an entry before any await:
\* part_012 lines 224-239, route.ts lines 217-233, facilitator.ts lines 240-242
entryDecision(s, r, e, maxReceiptsPerSettlement) ==
    LET settleCount == IF maxReceiptsPerSettlement > 0
                          /\ maxReceiptsPerSettlement < e.receiptCount
                       THEN maxReceiptsPerSettlement ELSE e.receiptCount
    IN
    IF s.kind = "example"
    THEN IF s.runs[r].startedAt - e.lastReceiptAt < AutoSettleAfter THEN "skip" ELSE "settle"
    ELSE IF e.settling THEN "skip"
    ELSE IF e.receiptCount <= 0 THEN "delete"
    ELSE IF settleCount <= 0 THEN "skip"
    ELSE "settle"

\* runAutoSettlement up to its call of settle for the entry at place i, on
\* call c: part_012 line 241, route.ts line 235
picked(s, r, i, c, maxReceiptsPerSettlement) ==
    LET e == s.pending[i]
        settleCount == IF maxReceiptsPerSettlement > 0
                          /\ maxReceiptsPerSettlement < e.receiptCount
                       THEN maxReceiptsPerSettlement ELSE e.receiptCount
    IN
    [s EXCEPT !.pending[i].settling = IF s.kind = "example" THEN @ ELSE TRUE,
              !.runs[r] = [@ EXCEPT !.at = "await", !.pos = i, !.call = c, !.sid = e.sid,
                                    !.settleCount = settleCount,
                                    !.entryCount = e.receiptCount, !.inp = e.inp],
              !.sync = 0]

\* runAutoSettlement after its settle call returned res (or threw): part_012
\* lines 249-283, route.ts lines 243-272, facilitator.ts lines 250-266; the
\* loop then goes on
settledEntry(s, r, res) ==
    LET run == s.runs[r]
        cur == pendingGet(s.pending, run.sid)
        remaining == (IF cur # 0 THEN s.pending[cur].receiptCount ELSE run.entryCount)
                        - run.settleCount
        m1 == IF res # "ok" THEN s.pending
              ELSE IF s.kind = "example" \/ remaining <= 0
              THEN pendingDelete(s.pending, run.sid, TRUE)
              ELSE IF cur # 0
              THEN [s.pending EXCEPT ![cur].receiptCount = remaining, ![cur].settling = FALSE]
              ELSE s.pending
        cur2 == pendingGet(m1, run.sid)
        m2 == IF s.kind # "example" /\ cur2 # 0 THEN [m1 EXCEPT ![cur2].settling = FALSE] ELSE m1
    IN [s EXCEPT !.pending = m2,
                 !.runs[r] = [@ EXCEPT !.at = "loop", !.call = 0, !.sid = "", !.settleCount = 0,
                                       !.entryCount = 0, !.inp = << >>],
                 !.sync = r]

\* a call returns res to the code that awaited it: POST /verify stores an entry
\* for an accepted receipt (part_012 lines 161-172, route.ts lines 181-191,
\* facilitator.ts lines 153-161), runAutoSettlement goes on after its settle
\* call, and POST /settle of facilitator.ts (lines 195-199) deletes the entry
\* of a settled session
afterReturn(s, c, op, sessionId, res, inp, t, maxReceiptsPerSettlement) ==
    LET own == {r \in DOMAIN s.runs : s.runs[r].at = "await" /\ s.runs[r].call = c}
        i == pendingGet(s.pending, sessionId)
    IN
    IF s.kind = "none" THEN s
    ELSE IF op = "verify"
    THEN IF res # "ok" THEN s
         ELSE [s EXCEPT !.pending =
                  pendingSet(@, sessionId,
                             verifiedEntry(s.kind, IF i = 0 THEN << >> ELSE <<s.pending[i]>>,
                                           sessionId, inp, t))]
    ELSE IF s.sync # 0
    THEN settledEntry(picked(s, s.sync, nextEntry(s, s.sync), c, maxReceiptsPerSettlement),
                      s.sync, res)
    ELSE IF own # {} THEN settledEntry(s, CHOOSE r \in own : TRUE, res)
    ELSE IF res = "ok"
    THEN [s EXCEPT !.pending = pendingDelete(@, sessionId,
                                             \E r \in DOMAIN s.runs : s.runs[r].at # "idle")]
    ELSE s

\* value of last after a step in which no call returned
NoReturn == [op |-> "none", sid |-> "s1", res |-> "none"]

\* a call returns (or throws) res; h and st are the heap and store it leaves
Return(c, op, sid, res, h, st) ==
    /\ pc' = [pc EXCEPT ![c] = "idle"]
    /\ loc' = [loc EXCEPT ![c] = IdleLoc]
    /\ last' = [op |-> op, sid |-> sid, res |-> res]
    /\ credit' = credit
    /\ withdrawRequests' = withdrawRequests
    /\ client' = client
    /\ chainSessions' = chainSessions
    /\ server' = afterReturn(server, c, op, sid, res, loc[c].inp, now,
                             config.maxReceiptsPerSettlement)
    /\ heap' = Collect(h, st, loc')
    /\ store' = st

\* a call suspends at an await with locals l; when a run of the scheduler has
\* the event loop, the call is the settle call it makes for its next entry
Await(c, at, l, h, st) ==
    /\ pc' = [pc EXCEPT ![c] = at]
    /\ loc' = [loc EXCEPT ![c] = l]
    /\ last' = NoReturn
    /\ credit' = credit
    /\ withdrawRequests' = withdrawRequests
    /\ client' = client
    /\ chainSessions' = chainSessions
    /\ server' = IF server.sync = 0 THEN server
                 ELSE picked(server, server.sync, nextEntry(server, server.sync), c,
                             config.maxReceiptsPerSettlement)
    /\ heap' = Collect(h, st, loc')
    /\ store' = st

(* ------------------------------- verify ------------------------------- *)

\* verify, lines 137-201: the checks that need no session state
verifyStatic(inp) ==
    LET req == inp.requirements
        extras == parseOdpDeferredExtras(req.extra)
    IN
    IF inp.accepted.scheme # Scheme \/ req.scheme # Scheme THEN "unsupported_scheme"
    ELSE IF inp.accepted.network # req.network THEN "network_mismatch"
    ELSE IF parseError(req.extra) # "" THEN parseError(req.extra)
    ELSE IF ~inp.hasReceipt THEN "invalid_odp_payload_missing_receipt"
    ELSE IF inp.receiptSignature = "" THEN "missing_receipt_signature"
    ELSE IF inp.receipt.sessionId # extras.sessionId THEN "session_id_mismatch"
    ELSE IF getAddress(extras.settlementContract) # Config.settlementContract
         THEN "settlement_contract_mismatch"
    ELSE IF getAddress(extras.debitWallet) # Config.debitWallet THEN "debit_wallet_mismatch"
    ELSE IF extras.withdrawDelaySeconds # Config.withdrawDelaySeconds
         THEN "withdraw_delay_mismatch"
    ELSE "ok"

\* verify, lines 211-227: the approval checks made before its signature is verified
verifyApprovalStatic(inp) ==
    LET extras == parseOdpDeferredExtras(inp.requirements.extra) IN
    IF inp.sessionSignature = "" THEN "missing_session_signature"
    ELSE IF inp.sessionApproval.authorizedProcessorsHash
              # hashAuthorizedProcessors(extras.authorizedProcessors)
         THEN "authorized_processors_hash_mismatch"
    ELSE "ok"

\* verify, lines 243-250: the supplied approval against the requirements
approvalMatchesRequirements(sa, req) ==
    LET extras == parseOdpDeferredExtras(req.extra) IN
    /\ getAddress(sa.payee) = getAddress(req.payTo)
    /\ getAddress(sa.asset) = getAddress(req.asset)
    /\ sa.sessionId = extras.sessionId
    /\ sa.startNonce = extras.startNonce
    /\ sa.maxSpend = extras.maxSpend
    /\ sa.expiry = extras.expiry

\* verify, lines 269-277: the supplied approval against the stored one
approvalMatchesStored(stored, sa) ==
    /\ stored.sessionId = sa.sessionId
    /\ stored.startNonce = sa.startNonce
    /\ stored.maxSpend = sa.maxSpend
    /\ stored.expiry = sa.expiry
    /\ isAddressEqual(stored.payee, sa.payee)
    /\ isAddressEqual(stored.asset, sa.asset)
    /\ stored.authorizedProcessorsHash = sa.authorizedProcessorsHash

\* verify, lines 260-268: the record of a session seen for the first time
newSessionRecord(sa, sessionSignature, extras) ==
    [approval |-> sa,
     sessionSignature |-> sessionSignature,
     settlementContract |-> extras.settlementContract,
     nextNonce |-> BigInt(sa.startNonce),
     spent |-> 0,
     receipts |-> <<>>,
     settling |-> FALSE]

\* verify, lines 289-323: session present, bound to the requirements, processor allowed
verifySession(h, rec, approval, inp) ==
    LET req == inp.requirements
        extras == parseOdpDeferredExtras(req.extra)
    IN
    IF rec = 0 THEN "missing_session_approval"
    ELSE IF h[rec].settlementContract # extras.settlementContract
         THEN "settlement_contract_mismatch"
    ELSE IF \/ approval.sessionId # extras.sessionId
            \/ approval.startNonce # extras.startNonce
            \/ approval.maxSpend # extras.maxSpend
            \/ approval.expiry # extras.expiry
            \/ ~isAddressEqual(approval.payee, getAddress(req.payTo))
            \/ ~isAddressEqual(approval.asset, getAddress(req.asset))
         THEN "requirements_session_mismatch"
    ELSE IF ~isAuthorizedProcessor(extras.authorizedProcessors) THEN "unauthorized_processor"
    ELSE "ok"

\* verify, lines 131-229 (with an approval) or 131-325 (without): up to the first await
VerifyStart(c, inp) ==
    LET sid == inp.receipt.sessionId
        rec == getSession(store, sid)
        approval == IF rec = 0 THEN IdleLoc.approval ELSE heap[rec].approval
        l == [IdleLoc EXCEPT !.op = "verify", !.inp = inp, !.rec = rec, !.approval = approval,
                             !.entry = StoredView(heap, store, sid)]
    IN
    /\ pc[c] = "idle"
    /\ UNCHANGED <<now, balance, chainDelay, config, accepted>>
    /\ IF verifyStatic(inp) # "ok"
       THEN Return(c, "verify", sid, verifyStatic(inp), heap, store)
       ELSE IF inp.hasApproval
       THEN IF verifyApprovalStatic(inp) # "ok"
            THEN Return(c, "verify", sid, verifyApprovalStatic(inp), heap, store)
            ELSE Await(c, "v_approval", l, heap, store)
       ELSE IF verifySession(heap, rec, approval, inp) # "ok"
            THEN Return(c, "verify", sid, verifySession(heap, rec, approval, inp), heap, store)
            ELSE Await(c, "v_wallet", l, heap, store)

\* verify, lines 229-325: verifySessionApproval has resolved
VerifyApproval(c) ==
    LET inp == loc[c].inp
        sid == inp.receipt.sessionId
        sa == inp.sessionApproval
        extras == parseOdpDeferredExtras(inp.requirements.extra)
        rec == loc[c].rec
        fresh == NewObj(heap)
        \* lines 259-268 and 284-286: a new local record, or the signature stored in the shared one
        h2 == IF rec = 0
              THEN (fresh :> newSessionRecord(sa, inp.sessionSignature, extras)) @@ heap
              ELSE [heap EXCEPT ![rec].sessionSignature = inp.sessionSignature]
        rec2 == IF rec = 0 THEN fresh ELSE rec
        l == [loc[c] EXCEPT !.rec = rec2, !.approval = sa]
    IN
    /\ pc[c] = "v_approval"
    /\ UNCHANGED <<now, balance, chainDelay, config, accepted>>
    /\ IF ~verifyTypedData(sa.payer, inp.sessionSignature)
       THEN Return(c, "verify", sid, "invalid_session_signature", heap, store)
       ELSE IF ~approvalMatchesRequirements(sa, inp.requirements)
       THEN Return(c, "verify", sid, "session_approval_mismatch", heap, store)
       ELSE IF rec # 0 /\ ~approvalMatchesStored(heap[rec].approval, sa)
       THEN Return(c, "verify", sid, "session_approval_mismatch", heap, store)
       ELSE IF verifySession(h2, rec2, sa, inp) # "ok"
       THEN Return(c, "verify", sid, verifySession(h2, rec2, sa, inp), h2, store)
       ELSE Await(c, "v_wallet", l, h2, store)

\* signer.readContract via getDebitWalletState: balanceOf and withdrawDelaySeconds
getDebitWalletState(payer) ==
    [balance |-> balance[payer.id], withdrawDelaySeconds |-> chainDelay]

\* verify, lines 325-347: getDebitWalletState has resolved
VerifyWallet(c) ==
    LET inp == loc[c].inp
        sid == inp.receipt.sessionId
        extras == parseOdpDeferredExtras(inp.requirements.extra)
        approval == loc[c].approval
        debitWalletState == getDebitWalletState(approval.payer)
        l == [loc[c] EXCEPT !.balance = debitWalletState.balance]
    IN
    /\ pc[c] = "v_wallet"
    /\ UNCHANGED <<now, balance, chainDelay, config, accepted>>
    /\ IF debitWalletState.withdrawDelaySeconds # BigInt(extras.withdrawDelaySeconds)
       THEN Return(c, "verify", sid, "debit_wallet_withdraw_delay_mismatch", heap, store)
       ELSE IF inp.receipt.sessionId # approval.sessionId
       THEN Return(c, "verify", sid, "session_id_mismatch", heap, store)
       ELSE Await(c, "v_receipt", l, heap, store)

\* verify, lines 325-329: the debit-wallet read rejects, verify throws
VerifyWalletThrows(c) ==
    /\ pc[c] = "v_wallet"
    /\ UNCHANGED <<now, balance, chainDelay, config, accepted>>
    /\ Return(c, "verify", loc[c].inp.receipt.sessionId, "throw", heap, store)

\* an amount test that leaves out the per-receipt limit
amountChecksIgnoreLimit(receipt, req, extras) ==
    IF receipt.amount # req.amount THEN "receipt_amount_mismatch" ELSE "ok"

\* verify, lines 371-387: the receipt amount against the requirements and the limit
amountChecks(receipt, req, extras) ==
    IF receipt.amount # req.amount THEN "receipt_amount_mismatch"
    ELSE IF /\ extras.maxAmountPerReceipt # Undef
            /\ BigInt(receipt.amount) > BigInt(extras.maxAmountPerReceipt)
         THEN "receipt_amount_exceeds_max"
    ELSE "ok"

\* a deadline test that turns away a deadline equal to the clock
deadlineChecksStrict(receipt, approval, req, t) ==
    LET deadline == BigInt(receipt.deadline)
        expiry == BigInt(approval.expiry)
        timeoutLimit == t + req.maxTimeoutSeconds
    IN
    IF deadline <= t \/ deadline > timeoutLimit \/ deadline > expiry
    THEN "receipt_deadline_invalid"
    ELSE IF expiry < t THEN "session_expired"
    ELSE "ok"

\* verify, lines 389-408: the receipt deadline against the clock, the timeout and the expiry
deadlineChecks(receipt, approval, req, t) ==
    LET deadline == BigInt(receipt.deadline)
        expiry == BigInt(approval.expiry)
        timeoutLimit == t + req.maxTimeoutSeconds
    IN
    IF deadline < t \/ deadline > timeoutLimit \/ deadline > expiry
    THEN "receipt_deadline_invalid"
    ELSE IF expiry < t THEN "session_expired"
    ELSE "ok"

\* a spend test that leaves out the debit-wallet balance
spendChecksIgnoreBalance(sessionRecord, approval, receipt, walletBalance) ==
    IF sessionRecord.spent + BigInt(receipt.amount) > BigInt(approval.maxSpend)
    THEN "session_max_spend_exceeded"
    ELSE "ok"

\* verify, lines 419-434: the spend after the receipt against maxSpend and the balance read
spendChecks(sessionRecord, approval, receipt, walletBalance) ==
    LET nextSpend == sessionRecord.spent + BigInt(receipt.amount) IN
    IF nextSpend > BigInt(approval.maxSpend) THEN "session_max_spend_exceeded"
    ELSE IF nextSpend > walletBalance THEN "insufficient_debit_wallet_balance"
    ELSE "ok"

\* receipt checks that test the amount before the nonce
verifyReceiptChecksAmountFirst(sessionRecord, approval, inp, walletBalance, t) ==
    LET receipt == inp.receipt
        req == inp.requirements
        extras == parseOdpDeferredExtras(req.extra)
    IN
    IF ~verifyTypedData(approval.payer, inp.receiptSignature) THEN "invalid_receipt_signature"
    ELSE IF amountChecks(receipt, req, extras) # "ok" THEN amountChecks(receipt, req, extras)
    ELSE IF receipt.nonce # DecStr(sessionRecord.nextNonce) THEN "receipt_nonce_mismatch"
    ELSE IF deadlineChecks(receipt, approval, req, t) # "ok"
         THEN deadlineChecks(receipt, approval, req, t)
    ELSE IF receipt.requestHash # normalizeRequestHash(extras.requestHash)
         THEN "request_hash_mismatch"
    ELSE spendChecks(sessionRecord, approval, receipt, walletBalance)

\* verify, lines 355-434: the checks on the receipt, against the record the call holds
verifyReceiptChecks(sessionRecord, approval, inp, walletBalance, t) ==
    LET receipt == inp.receipt
        req == inp.requirements
        extras == parseOdpDeferredExtras(req.extra)
    IN
    IF ~verifyTypedData(approval.payer, inp.receiptSignature) THEN "invalid_receipt_signature"
    ELSE IF receipt.nonce # DecStr(sessionRecord.nextNonce) THEN "receipt_nonce_mismatch"
    ELSE IF amountChecks(receipt, req, extras) # "ok" THEN amountChecks(receipt, req, extras)
    ELSE IF deadlineChecks(receipt, approval, req, t) # "ok"
         THEN deadlineChecks(receipt, approval, req, t)
    ELSE IF receipt.requestHash # normalizeRequestHash(extras.requestHash)
         THEN "request_hash_mismatch"
    ELSE spendChecks(sessionRecord, approval, receipt, walletBalance)

\* an acceptance that stores the receipt and leaves nextNonce as it was
acceptReceiptKeepsNextNonce(sessionRecord, receipt) ==
    [sessionRecord EXCEPT !.spent = @ + BigInt(receipt.amount),
                          !.receipts = Append(@, receipt)]

\* verify, lines 436-438: the accepted receipt enters the record
acceptReceipt(sessionRecord, receipt) ==
    [sessionRecord EXCEPT !.spent = @ + BigInt(receipt.amount),
                          !.nextNonce = @ + 1,
                          !.receipts = Append(@, receipt)]

\* verify, lines 347-446: verifyReceipt has resolved
VerifyReceipt(c) ==
    LET inp == loc[c].inp
        sid == inp.receipt.sessionId
        rec == loc[c].rec
        res == verifyReceiptChecks(heap[rec], loc[c].approval, inp, loc[c].balance, now)
        h2 == [heap EXCEPT ![rec] = acceptReceipt(@, inp.receipt)]
    IN
    /\ pc[c] = "v_receipt"
    /\ UNCHANGED <<now, balance, chainDelay, config>>
    /\ IF res # "ok"
       THEN /\ Return(c, "verify", sid, res, heap, store)
            /\ accepted' = accepted
       ELSE /\ Return(c, "verify", sid, "ok", h2, setSession(store, sid, rec))
            /\ accepted' = accepted (+) SetToBag({[nonce |-> BigInt(inp.receipt.nonce),
                                                          amount |-> BigInt(inp.receipt.amount)]})

(* ------------------------------- settle ------------------------------- *)

\* settle, lines 454-502: the checks that need no session state
settleStatic(inp) ==
    LET req == inp.requirements
        extras == parseOdpDeferredExtras(req.extra)
    IN
    IF ~inp.hasReceipt THEN "invalid_odp_payload_missing_receipt"
    ELSE IF parseError(req.extra) # "" THEN parseError(req.extra)
    ELSE IF ~isAuthorizedProcessor(extras.authorizedProcessors) THEN "unauthorized_processor"
    ELSE IF getAddress(extras.debitWallet) # Config.debitWallet THEN "debit_wallet_mismatch"
    ELSE IF extras.withdrawDelaySeconds # Config.withdrawDelaySeconds
         THEN "withdraw_delay_mismatch"
    ELSE "ok"

\* settle, lines 528-535: the batch taken from the receipts snapshot
batchReceipts(receipts, maxReceiptsPerSettlement) ==
    IF maxReceiptsPerSettlement > 0
    THEN SubSeq(receipts, 1, IF Len(receipts) < maxReceiptsPerSettlement
                             THEN Len(receipts) ELSE maxReceiptsPerSettlement)
    ELSE receipts

RECURSIVE batchTotal(_)
\* settle, line 563: reduce over the batch amounts
batchTotal(batch) ==
    IF Len(batch) = 0 THEN 0
    ELSE batchTotal(SubSeq(batch, 1, Len(batch) - 1)) + BigInt(batch[Len(batch)].amount)

\* a filter that drops only the receipt with the last nonce of the range
filterSettledLastOnly(receipts, startNonce, endNonce) ==
    SelectSeq(receipts, LAMBDA entry : BigInt(entry.nonce) # endNonce)

\* settle, lines 651-654 and 684-687: drop the receipts of the settled nonce range
filterSettled(receipts, startNonce, endNonce) ==
    SelectSeq(receipts,
              LAMBDA entry : BigInt(entry.nonce) < startNonce \/ BigInt(entry.nonce) > endNonce)

\* a finally block that leaves the settling flag raised
finallyKeepsFlag(h, rec) == h

\* settle, lines 695-698: the finally block
finallyClear(h, rec) == [h EXCEPT ![rec].settling = FALSE]

\* a flag test whose settlement_in_progress branch lowers the flag
settleLockLowersFlag(sessionRecord) ==
    IF sessionRecord.settling
    THEN [reason |-> "settlement_in_progress",
          record |-> [sessionRecord EXCEPT !.settling = FALSE]]
    ELSE [reason |-> "ok", record |-> [sessionRecord EXCEPT !.settling = TRUE]]

\* settle, lines 514-525: the settling flag is tested and raised
settleLock(sessionRecord) ==
    IF sessionRecord.settling
    THEN [reason |-> "settlement_in_progress", record |-> sessionRecord]
    ELSE [reason |-> "ok", record |-> [sessionRecord EXCEPT !.settling = TRUE]]

\* settle, lines 448-547: up to the debit-wallet read
SettleStart(c, inp) ==
    LET sid == inp.receipt.sessionId
        rec == getSession(store, sid)
        lock == settleLock(heap[rec])
        h1 == [heap EXCEPT ![rec] = lock.record]
        batch == batchReceipts(h1[rec].receipts, config.maxReceiptsPerSettlement)
        l == [IdleLoc EXCEPT !.op = "settle", !.inp = inp, !.rec = rec, !.batch = batch]
    IN
    /\ pc[c] = "idle"
    /\ UNCHANGED <<now, balance, chainDelay, config, accepted>>
    /\ IF settleStatic(inp) # "ok"
       THEN Return(c, "settle", sid, settleStatic(inp), heap, store)
       ELSE IF rec = 0
       THEN Return(c, "settle", sid, "session_not_found", heap, store)
       ELSE IF lock.reason # "ok"
       THEN Return(c, "settle", sid, lock.reason, h1, store)
       ELSE IF Len(batch) = 0
       THEN Return(c, "settle", sid, "no_receipts", finallyClear(h1, rec),
                   setSession(store, sid, rec))
       ELSE Await(c, "s_wallet", l, h1, setSession(store, sid, rec))

\* settle, lines 575-589: the contiguity assertion over the batch
batchContiguous(batch) ==
    \A i \in 1 .. Len(batch) : BigInt(batch[i].nonce) = BigInt(batch[1].nonce) + (i - 1)

\* settle, lines 547-627 (onchain) or 547-698 (synthetic): the debit-wallet read has resolved
SettleWallet(c) ==
    LET inp == loc[c].inp
        sid == inp.receipt.sessionId
        rec == loc[c].rec
        extras == parseOdpDeferredExtras(inp.requirements.extra)
        debitWalletState == getDebitWalletState(heap[rec].approval.payer)
        batch == loc[c].batch
        total == batchTotal(batch)
        startNonce == BigInt(batch[1].nonce)
        endNonce == BigInt(batch[Len(batch)].nonce)
        cleared == finallyClear(heap, rec)
        st == setSession(store, sid, rec)
        settled == [cleared EXCEPT ![rec].receipts = filterSettled(@, startNonce, endNonce)]
        l == [loc[c] EXCEPT !.startNonce = startNonce, !.endNonce = endNonce, !.total = total]
    IN
    /\ pc[c] = "s_wallet"
    /\ UNCHANGED <<now, balance, chainDelay, config, accepted>>
    /\ IF debitWalletState.withdrawDelaySeconds # BigInt(extras.withdrawDelaySeconds)
       THEN Return(c, "settle", sid, "debit_wallet_withdraw_delay_mismatch", cleared, st)
       ELSE IF total > debitWalletState.balance
       THEN Return(c, "settle", sid, "insufficient_debit_wallet_balance", cleared, st)
       ELSE IF ~batchContiguous(batch)
       THEN Return(c, "settle", sid, "receipt_nonce_gap", cleared, st)
       ELSE IF config.settlementMode = "onchain"
       THEN IF heap[rec].sessionSignature = ""
            THEN Return(c, "settle", sid, "missing_session_signature", cleared, st)
            ELSE Await(c, "s_write", l, heap, store)
       ELSE Return(c, "settle", sid, "ok", settled, st)

\* settle, lines 547-551 and 695-698: the debit-wallet read rejects, settle throws
SettleWalletThrows(c) ==
    LET rec == loc[c].rec
        sid == loc[c].inp.receipt.sessionId
    IN
    /\ pc[c] = "s_wallet"
    /\ UNCHANGED <<now, balance, chainDelay, config, accepted>>
    /\ Return(c, "settle", sid, "throw", finallyClear(heap, rec), setSession(store, sid, rec))

\* settle, lines 622-634: writeContract has resolved; the transaction is mined with
\* the given status, a success moving the batch total out of the payer's balance
SettleWrite(c, status) ==
    LET payer == heap[loc[c].rec].approval.payer.id
        total == loc[c].total
    IN
    /\ pc[c] = "s_write"
    /\ status = "success" => balance[payer] >= total
    /\ balance' = IF status = "success"
                  THEN [balance EXCEPT ![payer] = @ - total] ELSE balance
    /\ UNCHANGED <<now, chainDelay, config, accepted>>
    /\ Await(c, "s_wait", [loc[c] EXCEPT !.txStatus = status], heap, store)

\* settle, lines 622-627 or 634, then 662-674 and 695-698: writeContract or
\* waitForTransactionReceipt rejects; the error is caught and returned
SettleChainThrows(c) ==
    LET rec == loc[c].rec
        sid == loc[c].inp.receipt.sessionId
    IN
    /\ pc[c] \in {"s_write", "s_wait"}
    /\ UNCHANGED <<now, balance, chainDelay, config, accepted>>
    /\ Return(c, "settle", sid, "rpc_error", finallyClear(heap, rec), setSession(store, sid, rec))

\* settle, lines 634-661 and 695-698: the transaction receipt has arrived
SettleWait(c) ==
    LET rec == loc[c].rec
        sid == loc[c].inp.receipt.sessionId
        cleared == finallyClear(heap, rec)
        st == setSession(store, sid, rec)
        settled == [cleared EXCEPT
                      ![rec].receipts = filterSettled(@, loc[c].startNonce, loc[c].endNonce)]
    IN
    /\ pc[c] = "s_wait"
    /\ UNCHANGED <<now, balance, chainDelay, config, accepted>>
    /\ IF loc[c].txStatus # "success"
       THEN Return(c, "settle", sid, "settlement_transaction_failed", cleared, st)
       ELSE Return(c, "settle", sid, "ok", settled, st)

(* ----------------------------- environment ---------------------------- *)

\* the clock advances
Tick ==
    /\ now < MaxTime
    /\ now' = now + 1
    /\ last' = NoReturn
    /\ credit' = credit
    /\ withdrawRequests' = withdrawRequests
    /\ client' = client
    /\ chainSessions' = chainSessions
    /\ server' = server
    /\ UNCHANGED <<heap, store, pc, loc, balance, chainDelay, config, accepted>>

(* ---------------------------- specification --------------------------- *)

\* verify requests of the concurrent specification: the session's payer sends
\* receipts with any nonce, with or without the session approval
VerifyRequests ==
    {Request(sid, "p1", withApproval, Receipt(sid, DecStr(n), DecStr(1), DecStr(MaxTime)), "p1") :
        sid \in SessionIds, withApproval \in BOOLEAN, n \in 0 .. MaxSpendUnits}

\* settle requests: the scheduler replays a payload of the session
SettleRequests ==
    {Request(sid, "p1", FALSE, Receipt(sid, DecStr(0), DecStr(1), DecStr(MaxTime)), "p1") :
        sid \in SessionIds}

Configs == [settlementMode : {"synthetic", "onchain"}, maxReceiptsPerSettlement : {0, 1}]

Init ==
    /\ heap = << >>
    /\ store = [s \in SessionIds |-> 0]
    /\ pc = [c \in Calls |-> "idle"]
    /\ loc = [c \in Calls |-> IdleLoc]
    /\ now = 0
    /\ balance = [p \in Payers |-> StartBalance]
    /\ chainDelay \in {1, 2}
    /\ config \in Configs
    /\ accepted = EmptyBag
    /\ last = NoReturn
    /\ credit = CreditIdle
    /\ withdrawRequests = [p \in Payers |-> [amount |-> 0, requestedAt |-> 0]]
    /\ client = ClientIdle
    /\ chainSessions = [s \in SessionIds |-> << >>]
    /\ server = ServerIdle("none")

\* the steps of the calls in CallSet
CallSteps(CallSet, VReqs, SReqs) ==
    \/ \E c \in CallSet, inp \in VReqs : VerifyStart(c, inp)
    \/ \E c \in CallSet : VerifyApproval(c)
    \/ \E c \in CallSet : VerifyWallet(c)
    \/ \E c \in CallSet : VerifyWalletThrows(c)
    \/ \E c \in CallSet : VerifyReceipt(c)
    \/ \E c \in CallSet, inp \in SReqs : SettleStart(c, inp)
    \/ \E c \in CallSet : SettleWallet(c)
    \/ \E c \in CallSet : SettleWalletThrows(c)
    \/ \E c \in CallSet, status \in {"success", "reverted"} : SettleWrite(c, status)
    \/ \E c \in CallSet : SettleChainThrows(c)
    \/ \E c \in CallSet : SettleWait(c)

\* concurrent requests of one payer on one session
Next == CallSteps(Calls, VerifyRequests, SettleRequests)

Spec == Init /\ [][Next]_vars

\* verify requests of the sequential specification: two payers, either signature
\* form, non-canonical nonces, late deadlines and wrong amounts
SeqVerifyRequests ==
    {[Request(sid, p, withApproval, Receipt(sid, nonce, amount, DecStr(deadline)), p)
        EXCEPT !.sessionSignature = IF ~withApproval THEN ""
                                    ELSE IF alt THEN AltSigOf(p) ELSE SigOf(p)] :
        sid \in SessionIds, p \in Payers, withApproval \in BOOLEAN,
        nonce \in NonceStrs, amount \in {DecStr(1), DecStr(2)},
        deadline \in 0 .. MaxTime, alt \in BOOLEAN}

\* one call at a time, the clock advancing between the steps
NextSeq ==
    \/ CallSteps({1}, SeqVerifyRequests, SettleRequests)
    \/ Tick

SpecSeq == Init /\ [][NextSeq]_vars

(* ------------------------------- claims ------------------------------- *)

SettlePcs == {"s_wallet", "s_write", "s_wait"}

\* the settle calls of a session that have raised the settling flag and not yet cleared it
InFlightSettles(sessionId) ==
    {c \in Calls : pc[c] \in SettlePcs /\ loc[c].inp.receipt.sessionId = sessionId}

\* call c returns isValid: true in this step
VerifyAccepts(c) ==
    /\ pc[c] = "v_receipt"
    /\ pc'[c] = "idle"
    /\ last'.op = "verify"
    /\ last'.res = "ok"

\* call c returns success: true from settle in this step
SettleSucceeds(c) ==
    /\ pc[c] \in SettlePcs
    /\ pc'[c] = "idle"
    /\ last'.op = "settle"
    /\ last'.res = "ok"

AcceptedNonces == {e.nonce : e \in BagToSet(accepted)}

RECURSIVE SumAmounts(_)
SumAmounts(S) ==
    IF S = {} THEN 0
    ELSE LET e == CHOOSE x \in S : TRUE
         IN e.amount * CopiesIn(e, accepted) + SumAmounts(S \ {e})

\* sum of the amounts of all receipts verify has accepted
AcceptedTotal == SumAmounts(BagToSet(accepted))

\* C1: the receipts verify accepted in a session have pairwise distinct nonces
\* that form the contiguous sequence startNonce, startNonce + 1, ...; no nonce
\* is accepted twice.
C1_AcceptedNoncesDistinctContiguous ==
    /\ \A e \in BagToSet(accepted) : CopiesIn(e, accepted) = 1
    /\ AcceptedNonces =
         BigInt(GoodApproval("s1", "p1").startNonce) ..
           (BigInt(GoodApproval("s1", "p1").startNonce) + Cardinality(AcceptedNonces) - 1)

\* C2: for every session at most one settlement is in flight at any time.
C2_AtMostOneSettlementInFlight ==
    \A sid \in SessionIds : Cardinality(InFlightSettles(sid)) <= 1

\* C3: while a settlement of a session is in flight, no verify call on that
\* session accepts a receipt (appends it, raises spent and nextNonce).
C3_NoAcceptWhileSettling ==
    [][\A c \in Calls :
         VerifyAccepts(c) => InFlightSettles(loc[c].inp.receipt.sessionId) = {}]_vars

\* C4: spent never exceeds approval.maxSpend in any session record, and the
\* amounts of all receipts accepted in the session sum to at most maxSpend.
C4_SpendWithinMaxSpend ==
    /\ \A o \in DOMAIN heap : heap[o].spent <= BigInt(heap[o].approval.maxSpend)
    /\ AcceptedTotal <= BigInt(GoodApproval("s1", "p1").maxSpend)

\* C5: the stored record counts every acceptance: nextNonce is startNonce plus
\* the number of receipts ever accepted and spent is the sum of their amounts.
C5_RecordCountsEveryAcceptance ==
    \A sid \in SessionIds :
        store[sid] # 0 =>
            /\ heap[store[sid]].nextNonce =
                 BigInt(heap[store[sid]].approval.startNonce) + BagCardinality(accepted)
            /\ heap[store[sid]].spent = AcceptedTotal

\* C6: verify accepts a receipt only if its nonce is the decimal representation
\* of the session's nextNonce (that of its stored record, startNonce before
\* there is one); a skipped or an already accepted nonce is rejected.
C6_AcceptsOnlyNextNonce ==
    [][\A c \in Calls :
         VerifyAccepts(c) =>
            /\ loc[c].inp.receipt.nonce =
                 DecStr(IF store[loc[c].inp.receipt.sessionId] = 0
                        THEN BigInt(loc[c].approval.startNonce)
                        ELSE heap[store[loc[c].inp.receipt.sessionId]].nextNonce)
            /\ BigInt(loc[c].inp.receipt.nonce) \notin AcceptedNonces]_vars

\* C8: a successful settle removes from the stored session record exactly the
\* receipts of the settled nonce range and leaves spent, nextNonce and the
\* approval as they were.
C8_SettleRemovesOnlyItsBatch ==
    [][\A c \in Calls :
         SettleSucceeds(c) =>
            LET sid == loc[c].inp.receipt.sessionId
                batch == loc[c].batch
                before == heap[store[sid]]
                after == heap'[store'[sid]]
            IN /\ after.receipts = filterSettled(before.receipts,
                                                 BigInt(batch[1].nonce),
                                                 BigInt(batch[Len(batch)].nonce))
               /\ after.spent = before.spent
               /\ after.nextNonce = before.nextNonce
               /\ after.approval = before.approval]_vars

\* C7: a verify call that returns isValid:false leaves the stored session
\* record as it was when the call began, in every field, and stores no record
\* for a session that had none.
C7_InvalidVerifyLeavesRecordUnchanged ==
    [][(last'.op = "verify" /\ last'.res \notin {"ok", "throw"}) =>
         \A c \in Calls :
            IF pc[c] \in {"v_approval", "v_wallet", "v_receipt"} /\ pc'[c] = "idle"
            THEN StoredView(heap', store', last'.sid) = loc[c].entry
            ELSE pc' = pc => StoredView(heap', store', last'.sid)
                               = StoredView(heap, store, last'.sid)]_vars

\* C9: a settle call that raised the settling flag leaves it cleared and the
\* record persisted when it returns or throws, whatever the exit; the flag of
\* a session record is raised only while a settle call on that record is in flight.
C9_SettlingOnlyWhileInFlight ==
    [][/\ \A c \in Calls :
            (pc[c] \in SettlePcs /\ pc'[c] = "idle") =>
               /\ store'[loc[c].inp.receipt.sessionId] = loc[c].rec
               /\ ~heap'[loc[c].rec].settling
       /\ \A o \in DOMAIN heap' :
            heap'[o].settling => \E c \in Calls : pc'[c] \in SettlePcs /\ loc'[c].rec = o]_vars

\* a settle call has returned a caught chain exception and the stored flag is down
C9_Witness ==
    /\ last.op = "settle"
    /\ last.res = "rpc_error"
    /\ store[last.sid] # 0
    /\ ~heap[store[last.sid]].settling

\* C10: a settle call that finds the settling flag raised returns
\* settlement_in_progress and changes nothing: the records, the store and the
\* balances stay as they are, no call reaches the chain, and the flag stays raised.
C10_InProgressDoesNothing ==
    [][(last'.op = "settle" /\ last'.res = "settlement_in_progress") =>
          /\ heap' = heap
          /\ store' = store
          /\ balance' = balance
          /\ pc' = pc
          /\ heap'[store'[last'.sid]].settling]_vars

\* a settle call was turned away while another settlement of the session is in flight
C10_Witness ==
    /\ last.op = "settle"
    /\ last.res = "settlement_in_progress"
    /\ InFlightSettles(last.sid) # {}

\* the smaller of two numbers
Min(a, b) == IF a < b THEN a ELSE b

RECURSIVE SeqSum(_)
\* the sum of the amounts of a sequence of receipts, first to last
SeqSum(receipts) ==
    IF receipts = << >> THEN 0
    ELSE BigInt(Head(receipts).amount) + SeqSum(Tail(receipts))

\* C11: the batch of a settle call is the first min(len, maxReceiptsPerSettlement)
\* stored receipts (all without a positive limit), its total is the sum of their
\* amounts, an empty batch gives no_receipts, and after success the stored
\* receipts are the stored receipts without the batch, in their order.
C11_BatchIsPrefixAndSuffixRemains ==
    [][\A c \in Calls :
         /\ (pc[c] = "idle" /\ pc'[c] = "s_wallet") =>
              LET receipts == heap[store[loc'[c].inp.receipt.sessionId]].receipts
                  BatchLen == IF config.maxReceiptsPerSettlement > 0
                              THEN Min(Len(receipts), config.maxReceiptsPerSettlement)
                              ELSE Len(receipts)
              IN /\ loc'[c].batch = SubSeq(receipts, 1, BatchLen)
                 /\ loc'[c].batch # << >>
         /\ (pc[c] = "s_wallet" /\ pc'[c] = "s_write") =>
              loc'[c].total = SeqSum(loc[c].batch)
         /\ (last'.op = "settle" /\ last'.res = "no_receipts") =>
              heap[store[last'.sid]].receipts = << >>
         /\ SettleSucceeds(c) =>
              LET before == heap[store[loc[c].inp.receipt.sessionId]].receipts
                  after == heap'[store'[loc[c].inp.receipt.sessionId]].receipts
              IN after = SubSeq(before, Len(loc[c].batch) + 1, Len(before))]_vars

(* ------------- sequential calls over varied requirements -------------- *)

\* the clock of this specification runs past the session expiry
MaxClock == Expiry + 1
\* the debit-wallet balance of the second payer
LowBalance == 1

\* a request whose requirements carry the given amount, per-receipt limit,
\* timeout and session maxSpend
VariedRequest(p, withApproval, nonce, amount, deadline, reqAmount, maxAmount, timeout, maxSpend) ==
    LET r == Request("s1", p, withApproval,
                     Receipt("s1", DecStr(nonce), DecStr(amount), DecStr(deadline)), p)
    IN [r EXCEPT !.requirements.amount = DecStr(reqAmount),
                 !.requirements.maxTimeoutSeconds = timeout,
                 !.requirements.extra.maxAmountPerReceipt = maxAmount,
                 !.requirements.extra.maxSpend = DecStr(maxSpend),
                 !.sessionApproval.maxSpend = DecStr(maxSpend)]

\* verify arguments: receipts of either amount against requirements of either
\* amount and limit; receipts of every deadline against a short and a long
\* timeout; receipts of either payer, with and without an approval, which
\* may lower maxSpend
ReqVerifyRequests ==
    {VariedRequest("p1", TRUE, n, a, 1, ra, ma, 1, MaxSpendUnits) :
        n \in 0 .. 1, a \in {1, 2}, ra \in {1, 2}, ma \in {Undef, DecStr(1), DecStr(2)}}
      \cup {VariedRequest("p1", TRUE, n, 1, d, 1, Undef, t, MaxSpendUnits) :
                n \in 0 .. 1, d \in 0 .. MaxClock, t \in {0, 2}}
      \cup {VariedRequest(p, wa, n, 1, 1, 1, Undef, 1, ms) :
                p \in Payers, wa \in BOOLEAN, n \in 0 .. MaxSpendUnits, ms \in {1, MaxSpendUnits}}

InitReq ==
    /\ heap = << >>
    /\ store = [s \in SessionIds |-> 0]
    /\ pc = [c \in Calls |-> "idle"]
    /\ loc = [c \in Calls |-> IdleLoc]
    /\ now = 0
    /\ balance = [p \in Payers |-> IF p = "p1" THEN StartBalance ELSE LowBalance]
    /\ chainDelay = 1
    /\ config \in {cf \in Configs : cf.settlementMode = "onchain"}
    /\ accepted = EmptyBag
    /\ last = NoReturn
    /\ credit = CreditIdle
    /\ withdrawRequests = [p \in Payers |-> [amount |-> 0, requestedAt |-> 0]]
    /\ client = ClientIdle
    /\ chainSessions = [s \in SessionIds |-> << >>]
    /\ server = ServerIdle("none")

\* the clock advances, past the expiry of the session
TickLate ==
    /\ now < MaxClock
    /\ now' = now + 1
    /\ last' = NoReturn
    /\ credit' = credit
    /\ withdrawRequests' = withdrawRequests
    /\ client' = client
    /\ chainSessions' = chainSessions
    /\ server' = server
    /\ UNCHANGED <<heap, store, pc, loc, balance, chainDelay, config, accepted>>

NextReq == CallSteps({1}, ReqVerifyRequests, SettleRequests) \/ TickLate

SpecReq == InitReq /\ [][NextReq]_vars

\* a step in which verify call c returns from its receipt checks
VerifyDecides(c) == pc[c] = "v_receipt" /\ pc'[c] = "idle"

\* the receipt of call c is signed by the session payer and carries the next nonce
ReceiptInOrder(c) ==
    /\ verifyTypedData(loc[c].approval.payer, loc[c].inp.receiptSignature)
    /\ loc[c].inp.receipt.nonce = DecStr(heap[loc[c].rec].nextNonce)

\* C12: an accepted receipt has the amount of the requirements and, when the
\* requirements carry maxAmountPerReceipt, an amount within it; a receipt that
\* reaches the amount checks with another amount is rejected with
\* receipt_amount_mismatch, one above the limit with receipt_amount_exceeds_max.
C12_AcceptedAmountMatches ==
    [][\A c \in Calls :
         LET receipt == loc[c].inp.receipt
             req == loc[c].inp.requirements
             limit == req.extra.maxAmountPerReceipt
             over == limit # Undef /\ BigInt(receipt.amount) > BigInt(limit)
         IN /\ VerifyAccepts(c) => receipt.amount = req.amount /\ ~over
            /\ (VerifyDecides(c) /\ ReceiptInOrder(c) /\ receipt.amount # req.amount)
                  => last'.res = "receipt_amount_mismatch"
            /\ (VerifyDecides(c) /\ ReceiptInOrder(c) /\ receipt.amount = req.amount /\ over)
                  => last'.res = "receipt_amount_exceeds_max"
            /\ (VerifyDecides(c) /\ last'.res = "receipt_amount_mismatch")
                  => receipt.amount # req.amount
            /\ (VerifyDecides(c) /\ last'.res = "receipt_amount_exceeds_max") => over]_vars

\* a receipt of amount 2 was accepted and a later one was turned away by the limit
C12_Witness ==
    /\ \E e \in BagToSet(accepted) : e.amount = 2
    /\ last.op = "verify"
    /\ last.res = "receipt_amount_exceeds_max"

\* C13: verify accepts a receipt only if the spend it leads to is within the
\* debit-wallet balance of the payer read during that same call; otherwise it
\* returns insufficient_debit_wallet_balance and accepts nothing.
C13_AcceptedSpendWithinBalanceRead ==
    [][\A c \in Calls :
         LET amount == BigInt(loc[c].inp.receipt.amount) IN
         /\ (pc[c] = "v_wallet" /\ pc'[c] = "v_receipt")
               => loc'[c].balance = balance[loc[c].approval.payer.id]
         /\ VerifyAccepts(c) =>
               /\ heap[loc[c].rec].spent + amount <= loc[c].balance
               /\ heap'[store'[last'.sid]].spent <= loc[c].balance
         /\ (VerifyDecides(c) /\ last'.res = "insufficient_debit_wallet_balance") =>
               /\ heap[loc[c].rec].spent + amount > loc[c].balance
               /\ accepted' = accepted
               /\ store' = store
               /\ store[last'.sid] # 0 =>
                     /\ heap'[store[last'.sid]].spent = heap[store[last'.sid]].spent
                     /\ heap'[store[last'.sid]].nextNonce = heap[store[last'.sid]].nextNonce
                     /\ heap'[store[last'.sid]].receipts = heap[store[last'.sid]].receipts]_vars

\* receipts were accepted and a later one was turned away for lack of balance
C13_Witness ==
    /\ accepted # EmptyBag
    /\ last.op = "verify"
    /\ last.res = "insufficient_debit_wallet_balance"

\* C14: with every other check passing, verify accepts a receipt exactly when
\* now <= deadline <= min(now + maxTimeoutSeconds, approval.expiry), and
\* rejects it with receipt_deadline_invalid otherwise; no receipt is accepted
\* outside the window.
C14_DeadlineWindow ==
    [][\A c \in Calls :
         LET inp == loc[c].inp
             extras == parseOdpDeferredExtras(inp.requirements.extra)
             deadline == BigInt(inp.receipt.deadline)
             \* every check of the receipt other than the deadline passes
             OtherReceiptChecksPass ==
                 /\ ReceiptInOrder(c)
                 /\ amountChecks(inp.receipt, inp.requirements, extras) = "ok"
                 /\ inp.receipt.requestHash = normalizeRequestHash(extras.requestHash)
                 /\ spendChecks(heap[loc[c].rec], loc[c].approval, inp.receipt,
                                loc[c].balance) = "ok"
             DeadlineInWindow ==
                 /\ now <= deadline
                 /\ deadline <= Min(now + inp.requirements.maxTimeoutSeconds,
                                    BigInt(loc[c].approval.expiry))
         IN
         /\ VerifyAccepts(c) => DeadlineInWindow
         /\ (VerifyDecides(c) /\ OtherReceiptChecksPass) =>
               IF DeadlineInWindow THEN last'.res = "ok"
               ELSE last'.res = "receipt_deadline_invalid"]_vars

\* a receipt whose deadline equals the clock, after the clock moved, was accepted
C14_Witness ==
    /\ now >= 1
    /\ last.op = "verify"
    /\ last.res = "ok"
    /\ LET receipts == heap[store[last.sid]].receipts
       IN receipts[Len(receipts)].deadline = DecStr(now)

\* C15: when a record is stored and verify is given a sessionApproval that
\* differs from the stored approval in any field, the payer included, the
\* call goes no further and returns session_approval_mismatch.
C15_ApprovalIdenticalToStored ==
    [][\A c \in Calls :
         (/\ pc[c] = "v_approval"
          /\ pc'[c] # "v_approval"
          /\ loc[c].rec # 0
          /\ loc[c].inp.sessionApproval # heap[loc[c].rec].approval)
            => /\ pc'[c] = "idle"
               /\ last'.res = "session_approval_mismatch"]_vars

\* C16: a settle call for a session that is CLOSED (no receipts left, approval
\* expired) finds no record and returns session_not_found.
C16_SettleOnClosedSessionNotFound ==
    [][\A sid \in SessionIds :
         (/\ store[sid] # 0
          /\ heap[store[sid]].receipts = << >>
          /\ BigInt(heap[store[sid]].approval.expiry) < now
          /\ last'.op = "settle"
          /\ last'.sid = sid)
            => last'.res = "session_not_found"]_vars

\* C17 as stated: in every stored session record, for every index i of the
\* receipts list (from 0), receipts[i].nonce = approval.startNonce + i.
C17_ReceiptNonceIsStartPlusIndex ==
    \A sid \in SessionIds :
        store[sid] # 0 =>
            LET rec == heap[store[sid]] IN
            \A i \in 1 .. Len(rec.receipts) :
                BigInt(rec.receipts[i].nonce) = BigInt(rec.approval.startNonce) + (i - 1)

\* C17, amended: in every session record the receipts carry consecutive
\* nonces that end just below nextNonce: for every index i (from 0),
\* receipts[i].nonce = nextNonce - len(receipts) + i.
C17_ReceiptNoncesConsecutiveBelowNext ==
    \A o \in DOMAIN heap :
        \A i \in 1 .. Len(heap[o].receipts) :
            BigInt(heap[o].receipts[i].nonce)
               = heap[o].nextNonce - Len(heap[o].receipts) + (i - 1)

\* a settlement has removed a batch and the stored record holds a later receipt
C17_Witness ==
    \E sid \in SessionIds :
        /\ store[sid] # 0
        /\ heap[store[sid]].receipts # << >>
        /\ BigInt(heap[store[sid]].receipts[1].nonce)
              > BigInt(heap[store[sid]].approval.startNonce)

(* ============== fluxacredit facilitator: JSON values ================== *)

\* a JSON value: a primitive (its literal in p), an array or an object; the
\* members m of an object are its own properties in insertion order, those
\* of an array its elements (key "")
JPrim(lit) == [t |-> "prim", p |-> lit, m |-> << >>]
JArr(members) == [t |-> "arr", p |-> "", m |-> members]
JObj(members) == [t |-> "obj", p |-> "", m |-> members]
JMember(k, v) == [k |-> k, v |-> v]

\* the property names of the model in the order Array.prototype.sort gives
\* them (UTF-16 code units: "_" sorts before "a")
SortedKeys == <<"__proto__", "a", "b">>

JGet(obj, k) == obj.m[CHOOSE i \in DOMAIN obj.m : obj.m[i].k = k].v

RECURSIVE normalizeKeys(_, _, _)
RECURSIVE normalize(_)
\* deepEqual, lines 17-21: out[k] = normalize(obj[k]) for the sorted keys from
\* index i on; the assignment out["__proto__"] = v goes to the setter of
\* Object.prototype and gives out no own property
normalizeKeys(obj, i, out) ==
    IF i > Len(SortedKeys) THEN out
    ELSE LET k == SortedKeys[i] IN
         IF (\A j \in DOMAIN obj.m : obj.m[j].k # k) \/ k = "__proto__" THEN normalizeKeys(obj, i + 1, out)
         ELSE normalizeKeys(obj, i + 1, Append(out, JMember(k, normalize(JGet(obj, k)))))

\* deepEqual, lines 14-22: normalize
normalize(v) ==
    IF v.t = "prim" THEN v
    ELSE IF v.t = "arr"
    THEN JArr([i \in DOMAIN v.m |-> JMember("", normalize(v.m[i].v))])
    ELSE JObj(normalizeKeys(v, 1, << >>))

RECURSIVE stringifyMembers(_, _, _)
RECURSIVE stringify(_)
\* JSON.stringify of the members from index i on, comma separated
stringifyMembers(v, i, isObj) ==
    IF i > Len(v.m) THEN << >>
    ELSE (IF i > 1 THEN <<",">> ELSE << >>)
         \o (IF isObj THEN <<"\"", v.m[i].k, "\"", ":">> ELSE << >>)
         \o stringify(v.m[i].v)
         \o stringifyMembers(v, i + 1, isObj)

\* JSON.stringify: the text of a value, as a sequence of tokens
stringify(v) ==
    IF v.t = "prim" THEN <<v.p>>
    ELSE IF v.t = "arr" THEN <<"[">> \o stringifyMembers(v, 1, FALSE) \o <<"]">>
    ELSE <<"{">> \o stringifyMembers(v, 1, TRUE) \o <<"}">>

\* deepEqual, lines 12-27
deepEqual(a, b) == stringify(normalize(a)) = stringify(normalize(b))

RECURSIVE JsonEqual(_, _)
\* equality of JSON values: objects as maps from names to values whatever
\* the order of their members, arrays element by element in order
JsonEqual(a, b) ==
    /\ a.t = b.t
    /\ a.t = "prim" => a.p = b.p
    /\ a.t = "arr" =>
         /\ Len(a.m) = Len(b.m)
         /\ \A i \in DOMAIN a.m : JsonEqual(a.m[i].v, b.m[i].v)
    /\ a.t = "obj" =>
         /\ {a.m[i].k : i \in DOMAIN a.m} = {b.m[i].k : i \in DOMAIN b.m}
         /\ \A i \in DOMAIN a.m : JsonEqual(a.m[i].v, JGet(b, a.m[i].k))

\* bounded JSON values: primitives, flat arrays and objects of at most two
\* members, and one level of nesting
JsonValues ==
    LET keys == {SortedKeys[i] : i \in DOMAIN SortedKeys}
        prims == {JPrim("1"), JPrim("\"x\"")}
        flatArrays ==
            {JArr(<< >>)} \cup {JArr(<<JMember("", v)>>) : v \in prims}
              \cup {JArr(<<JMember("", v), JMember("", w)>>) : v \in prims, w \in prims}
        flatObjects ==
            {JObj(<< >>)} \cup {JObj(<<JMember(k, v)>>) : k \in keys, v \in prims}
              \cup {JObj(<<JMember(ks[1], v), JMember(ks[2], w)>>) :
                       ks \in {kk \in keys \X keys : kk[1] # kk[2]}, v \in prims, w \in prims}
        nested ==
            {JObj(<<JMember("a", v)>>) : v \in flatArrays \cup flatObjects}
              \cup {JArr(<<JMember("", v)>>) : v \in flatObjects}
    IN prims \cup flatArrays \cup flatObjects \cup nested

(* ============ fluxacredit facilitator: HTTP message signature ========= *)

\* a thrown Error, carrying its message, and a normal result
Thrown(message) == [threw |-> TRUE, message |-> message, value |-> << >>]
Value(v) == [threw |-> FALSE, message |-> "", value |-> v]

\* String.prototype.toLowerCase on the component names of the model
toLowerCase(name) == IF name = "Payment-Signature" THEN "payment-signature" ELSE name

\* a Signature-Input header value, by its parts: the text before "=" (hasEq
\* tells whether there is an "="), the parenthesised list (hasParens) of
\* items, each quoted or bare, a quoted one possibly without closing quote,
\* and the ";k=v" parameters in the order written
SigParam(k, v) == [k |-> k, v |-> v]
SignatureInputHeader(label, hasEq, hasParens, items, params) ==
    [label |-> label, hasEq |-> hasEq, hasParens |-> hasParens, items |-> items, params |-> params]

RECURSIVE paramsRecord(_, _)
\* parseSignatureInput, lines 92-101: params[k] = v in order, a later one replacing an earlier
paramsRecord(params, out) ==
    IF params = << >> THEN out
    ELSE paramsRecord(Tail(params),
                      [k \in (DOMAIN out) \cup {Head(params).k} |->
                          IF k = Head(params).k THEN Head(params).v ELSE out[k]])

\* parseSignatureInput, lines 53-103
parseSignatureInput(input) ==
    IF ~input.hasEq THEN Thrown("invalid_signature_input")
    ELSE IF ~input.hasParens THEN Thrown("invalid_signature_input_components")
    ELSE IF \E i \in DOMAIN input.items : input.items[i].quoted /\ ~input.items[i].closed
    THEN Thrown("invalid_signature_input_components_quote")
    ELSE Value([label |-> input.label,
                components |-> [i \in DOMAIN input.items |-> input.items[i].text],
                params |-> paramsRecord(input.params, << >>),
                rawParamsSection |-> [items |-> input.items, params |-> input.params]])

\* parsed.params[k], undefined (Undef) when absent
paramOf(parsed, k) == IF k \in DOMAIN parsed.params THEN parsed.params[k] ELSE "undefined"

\* lines 172-173: parsed.params[k] ? parseInt(parsed.params[k], 10) : undefined,
\* with 0 for every falsy outcome (absent, empty, zero)
intParamOf(parsed, k) ==
    IF k \notin DOMAIN parsed.params THEN 0
    ELSE IF parsed.params[k] = << >> THEN 0
    ELSE BigInt(parsed.params[k])

\* Array.prototype.includes
includes(components, name) == \E i \in DOMAIN components : components[i] = name

\* parseSignatureHeader, lines 148-158, of a Signature header given by its
\* label, whether it has an "=", and whether its value has the form :base64:
parseSignatureHeader(signature) ==
    IF ~signature.hasEq THEN Thrown("invalid_signature_header")
    ELSE IF ~signature.wellFormed THEN Thrown("invalid_signature_value")
    ELSE Value([label |-> signature.label, sig |-> signature.sig])

\* new URL(url).host; the constructor throws on a string that is no URL
urlHost(url) ==
    IF url = "" THEN Thrown("Invalid URL")
    ELSE IF url = "https://a/x" THEN Value("a") ELSE Value("b")

RECURSIVE baseLines(_, _, _)
\* buildSignatureBase, lines 133-143: one line per covered component
baseLines(components, headers, authority) ==
    IF components = << >> THEN Value(<< >>)
    ELSE LET c == Head(components)
             name == toLowerCase(c)
             rest == baseLines(Tail(components), headers, authority)
         IN IF c # "@authority" /\ name \notin DOMAIN headers
            THEN Thrown(IF name = "x-extra" THEN "missing_header:x-extra"
                        ELSE "missing_header:other")
            ELSE IF rest.threw THEN rest
            ELSE Value(<<IF c = "@authority" THEN <<"@authority", authority>>
                         ELSE <<name, headers[name]>>>> \o rest.value)

\* buildSignatureBase, lines 131-146
buildSignatureBase(parsed, headers, authority) ==
    LET lines == baseLines(parsed.components, headers, authority) IN
    IF lines.threw THEN lines
    ELSE Value([lines |-> lines.value, signatureParams |-> parsed.rawParamsSection])

\* an Ed25519 signature by the holder of key over a signature base, and
\* nacl.sign.detached.verify
Ed25519Sign(key, base) == [key |-> key, base |-> base]
naclVerify(base, sig, pub) == sig = Ed25519Sign(pub, base)

\* jwkThumbprintEd25519: the RFC 7638 thumbprint of a directory key
jwkThumbprintEd25519(jwk) == IF jwk.x = "k1" THEN "tp1" ELSE "tp2"

\* a key of a signature directory
Jwk(kty, x) == [kty |-> kty, crv |-> "Ed25519", x |-> x]

RECURSIVE findKey(_, _)
\* verifyWebBotAuth, lines 194-202: the first usable key whose thumbprint is
\* keyid; "" stands for pub = null
findKey(keys, keyid) ==
    IF keys = << >> THEN ""
    ELSE LET k == Head(keys) IN
         IF k.kty # "OKP" \/ k.crv # "Ed25519" \/ k.x = "" THEN findKey(Tail(keys), keyid)
         ELSE IF jwkThumbprintEd25519(k) = keyid THEN k.x
         ELSE findKey(Tail(keys), keyid)

\* outcome of the part of verifyWebBotAuth that runs before the directory
\* fetch: a result, or the values the rest of the function needs
Fail(error) == [done |-> TRUE, error |-> error, base |-> << >>, sig |-> << >>, keyid |-> ""]

\* the variant of componentChecks that does not require "payment-signature"
componentChecksWithoutPaymentSignature(parsed) ==
    IF ~includes(parsed.components, "signature-agent") THEN "missing_component_signature-agent"
    ELSE IF ~includes(parsed.components, "@authority") THEN "missing_component_@authority"
    ELSE ""

\* verifyWebBotAuth, lines 164-166: the error of the first required component
\* that is not covered, "" when all three are
componentChecks(parsed) ==
    IF ~includes(parsed.components, "payment-signature") THEN "missing_component_payment-signature"
    ELSE IF ~includes(parsed.components, "signature-agent") THEN "missing_component_signature-agent"
    ELSE IF ~includes(parsed.components, "@authority") THEN "missing_component_@authority"
    ELSE ""

\* a window check that measures the past tolerance from created
windowChecksFromCreated(parsed, t) ==
    LET created == intParamOf(parsed, "created")
        expires == intParamOf(parsed, "expires")
    IN IF created # 0 /\ expires # 0
       THEN IF expires - created > 60 THEN "window_too_long"
            ELSE IF t < created - 60 \/ t > created + 60 THEN "expired_or_not_yet_valid"
            ELSE ""
       ELSE ""

\* verifyWebBotAuth, lines 171-178: the short-lived window, at clock t
windowChecks(parsed, t) ==
    LET created == intParamOf(parsed, "created")
        expires == intParamOf(parsed, "expires")
    IN IF created # 0 /\ expires # 0
       THEN IF expires - created > 60 THEN "window_too_long"
            ELSE IF t < created - 60 \/ t > expires + 60 THEN "expired_or_not_yet_valid"
            ELSE ""
       ELSE ""

\* verifyWebBotAuth, lines 161-191, up to the await of the directory fetch; a
\* throw is caught on lines 207-209 and its message becomes the error
verifyWebBotAuthBeforeFetch(input, t) ==
    LET p == parseSignatureInput(input.signatureInput) IN
    IF p.threw THEN Fail(p.message)
    ELSE LET parsed == p.value IN
    IF paramOf(parsed, "tag") # "web-bot-auth" THEN Fail("invalid_tag")
    ELSE IF componentChecks(parsed) # "" THEN Fail(componentChecks(parsed))
    ELSE LET h == parseSignatureHeader(input.signature) IN
    IF h.threw THEN Fail(h.message)
    ELSE IF h.value.label # parsed.label THEN Fail("label_mismatch")
    ELSE IF windowChecks(parsed, t) # "" THEN Fail(windowChecks(parsed, t))
    ELSE LET u == urlHost(input.url) IN
    IF u.threw THEN Fail(u.message)
    ELSE LET b == buildSignatureBase(parsed,
                     [n \in {"payment-signature", "signature-agent"} |->
                         IF n = "payment-signature" THEN input.paymentSignatureHeader
                         ELSE input.signatureAgent],
                     u.value) IN
    IF b.threw THEN Fail(b.message)
    ELSE [done |-> FALSE, error |-> "", base |-> b.value, sig |-> h.value.sig,
          keyid |-> paramOf(parsed, "keyid")]

\* verifyWebBotAuth, lines 192-206, once the directory has answered with keys
verifyWebBotAuthAfterFetch(pending, keys) ==
    LET pub == findKey(keys, pending.keyid) IN
    IF pub = "" THEN [ok |-> FALSE, error |-> "key_not_found", thumbprint |-> ""]
    ELSE IF naclVerify(pending.base, pending.sig, pub)
    THEN [ok |-> TRUE, error |-> "", thumbprint |-> pending.keyid]
    ELSE [ok |-> FALSE, error |-> "signature_verify_failed", thumbprint |-> ""]

(* ================== fluxacredit facilitator: the scheme ================ *)

\* String(requirements.extra?.id ?? ""): a missing id gives "", the number 1
\* and the string "1" give the same text
StringOfId(id) ==
    IF id = "absent" THEN "" ELSE IF id \in {"n1", "s1"} THEN "1" ELSE "2"

\* the input that verify hands to verifyWebBotAuth, scheme.ts lines 67-74; the
\* payment header is the raw one from the extension, else the payload encoded
\* again (lines 61-64)
VerifyInput(inp) ==
    [signatureAgent |-> inp.wba.signatureAgent,
     signatureInput |-> inp.wba.signatureInput,
     signature |-> inp.wba.signature,
     url |-> inp.url,
     paymentSignatureHeader |->
         IF inp.wba.paymentSignatureHeader # "" THEN inp.wba.paymentSignatureHeader
         ELSE "reencoded-payload"]

\* scheme.ts lines 56-59: the extension or one of its three headers is missing
webBotAuthMissing(inp) ==
    \/ ~inp.wba.present
    \/ inp.wba.signatureAgent = ""
    \/ ~inp.wba.inputGiven
    \/ ~inp.wba.sigGiven

\* a result of verify or settle, with what the call was given
CreditResult(op, inp, ok, reason, payer, transaction, fetched, again) ==
    [op |-> op, inp |-> inp, ok |-> ok, reason |-> reason, payer |-> payer,
     transaction |-> transaction, fetched |-> fetched, again |-> again]

\* every variable of the odp-deferred scheme, which the credit scheme never touches
odpVars == <<heap, store, pc, loc, now, balance, chainDelay, config, accepted, last,
            withdrawRequests, client, chainSessions, server>>

\* FluxaCreditFacilitatorScheme.verify, scheme.ts lines 47-74, up to the
\* first await that suspends: the directory fetch inside verifyWebBotAuth
CreditVerify(inp) ==
    /\ credit.pc = "idle"
    /\ UNCHANGED odpVars
    /\ IF ~deepEqual(inp.accepted, inp.requirements)
       THEN credit' = [credit EXCEPT !.res =
                CreditResult("verify", inp, FALSE, "requirements_mismatch", "", << >>, FALSE, FALSE)]
       ELSE IF webBotAuthMissing(inp)
       THEN credit' = [credit EXCEPT !.res =
                CreditResult("verify", inp, FALSE, "invalid_web_bot_auth", "", << >>, FALSE, FALSE)]
       ELSE LET v == verifyWebBotAuthBeforeFetch(VerifyInput(inp), now) IN
            IF v.done
            THEN credit' = [credit EXCEPT !.res =
                     CreditResult("verify", inp, FALSE, v.error, "", << >>, FALSE, FALSE)]
            ELSE credit' = [credit EXCEPT !.pc = "fetch", !.inp = inp, !.pending = v]

\* fetchJwks resolves, tsup.config.ts lines 192-206 and scheme.ts lines 75-77
CreditFetchResolves(keys) ==
    /\ credit.pc = "fetch"
    /\ UNCHANGED odpVars
    /\ LET v == verifyWebBotAuthAfterFetch(credit.pending, keys) IN
       credit' = [credit EXCEPT !.pc = "idle", !.inp = << >>, !.pending = << >>,
                     !.res = CreditResult("verify", credit.inp, v.ok, v.error, v.thumbprint, << >>, TRUE, FALSE)]

\* fetchJwks throws (lines 118-120: the fetch fails, the status is not ok or the
\* body is no JSON); the catch of lines 207-209 returns the message
CreditFetchThrows(message) ==
    /\ credit.pc = "fetch"
    /\ UNCHANGED odpVars
    /\ credit' = [credit EXCEPT !.pc = "idle", !.inp = << >>, !.pending = << >>,
                     !.res = CreditResult("verify", credit.inp, FALSE, message, "", << >>, TRUE, FALSE)]

\* the transaction id of scheme.ts line 81
creditTransaction(inp) == <<"credit-ledger:", StringOfId(inp.extraId)>>

\* the latest result is a settlement of the id that inp carries
SettledJustBefore(inp) ==
    /\ credit.res.op = "settle"
    /\ StringOfId(credit.res.inp.extraId) = StringOfId(inp.extraId)

\* a settle that numbers a repeated settlement of one id
CreditSettleNumbersRepeats(inp) ==
    /\ credit.pc = "idle"
    /\ UNCHANGED odpVars
    /\ credit' = [credit EXCEPT !.res =
           CreditResult("settle", inp, TRUE, "", "",
                        IF SettledJustBefore(inp) THEN creditTransaction(inp) \o <<"again">>
                        ELSE creditTransaction(inp),
                        FALSE, SettledJustBefore(inp))]

\* FluxaCreditFacilitatorScheme.settle, scheme.ts lines 79-83
CreditSettle(inp) ==
    /\ credit.pc = "idle"
    /\ UNCHANGED odpVars
    /\ credit' = [credit EXCEPT !.res =
           CreditResult("settle", inp, TRUE, "", "", creditTransaction(inp), FALSE,
                        SettledJustBefore(inp))]

(* ------------------- requests of the credit scheme -------------------- *)

\* the three components a signature must cover
RequiredComponents == <<"payment-signature", "signature-agent", "@authority">>

\* a Signature-Input header with label sig1, quoted components and the
\* parameters created, expires (window, Undef for one left out), keyid and
\* tag ("none" for no tag)
InputHeader(components, tag, keyid, window, hasEq, hasParens, closed) ==
    SignatureInputHeader("sig1", hasEq, hasParens,
        [i \in DOMAIN components |-> [text |-> components[i], quoted |-> TRUE, closed |-> closed]],
        (IF window[1] = Undef THEN << >> ELSE <<SigParam("created", window[1])>>)
          \o (IF window[2] = Undef THEN << >> ELSE <<SigParam("expires", window[2])>>)
          \o <<SigParam("keyid", keyid)>>
          \o (IF tag = "none" THEN << >> ELSE <<SigParam("tag", tag)>>))

\* the signature base a client computes for its own request, << >> when the
\* request has none
ClientBase(input, agent, header, url) ==
    LET p == parseSignatureInput(input)
        u == urlHost(url)
    IN IF p.threw \/ u.threw THEN << >>
       ELSE LET b == buildSignatureBase(p.value,
                        [n \in {"payment-signature", "signature-agent"} |->
                            IF n = "payment-signature" THEN header ELSE agent],
                        u.value)
            IN IF b.threw THEN << >> ELSE b.value

\* a request whose accepted terms equal the requirements and whose signature
\* was made by signer over the base for signedUrl and signedHeader
\* The arguments of a verify or settle call are paymentPayload.accepted, the
\* requirements, requirements.extra?.id, resource.url and the extension
\* wba = extensions["web-bot-auth"]: present is FALSE when the payload has no
\* such extension, a header that was not sent has its given flag FALSE, and a
\* Signature header is a label, "=" (hasEq) and a value of the form :base64:
\* (wellFormed).
AuthRequest(input, sigLabel, sigHasEq, sigWell, signer, signedUrl, signedHeader, headerExt, url) ==
    [accepted |-> JObj(<<JMember("a", JPrim("1"))>>),
     requirements |-> JObj(<<JMember("a", JPrim("1"))>>),
     extraId |-> "s1",
     wba |-> [present |-> TRUE, signatureAgent |-> "https://agent/dir",
              inputGiven |-> TRUE, signatureInput |-> input,
              sigGiven |-> TRUE,
              signature |->
                  [label |-> sigLabel, hasEq |-> sigHasEq, wellFormed |-> sigWell,
                   sig |-> Ed25519Sign(signer,
                               ClientBase(input, "https://agent/dir", signedHeader, signedUrl))],
              paymentSignatureHeader |-> headerExt],
     url |-> url]

\* the request of an honest client whose key k1 is in the directory
ValidRequest ==
    AuthRequest(InputHeader(RequiredComponents, "web-bot-auth", "tp1", <<Undef, Undef>>, TRUE, TRUE, TRUE),
                "sig1", TRUE, TRUE, "k1", "https://a/x", "raw", "raw", "https://a/x")

\* the clock value around which the window requests are written
WindowClock == 200

\* the request of the honest client with a created/expires window
WindowRequest(created, expires) ==
    AuthRequest(InputHeader(RequiredComponents, "web-bot-auth", "tp1", <<created, expires>>,
                            TRUE, TRUE, TRUE),
                "sig1", TRUE, TRUE, "k1", "https://a/x", "raw", "raw", "https://a/x")

\* the arguments of verify
CreditVerifyRequests ==
    \* covered components (complete, one required component missing, the name
    \* in capitals, a further header), tag, keyid and signer vary
    {AuthRequest(InputHeader(cs, tag, keyid, <<Undef, Undef>>, TRUE, TRUE, TRUE),
                 "sig1", TRUE, TRUE, signer, "https://a/x", "raw", "raw", "https://a/x") :
        cs \in {RequiredComponents,
                <<"signature-agent", "@authority">>,
                <<"Payment-Signature", "signature-agent", "@authority">>,
                <<"payment-signature", "@authority">>,
                <<"payment-signature", "signature-agent">>,
                <<"payment-signature", "signature-agent", "@authority", "x-extra">>},
        tag \in {"web-bot-auth", "other", "none"},
        keyid \in {"tp1", "tp2"}, signer \in {"k1", "k2"}}
    \* the created/expires window, the label of the Signature header and the
    \* URL requested vary
      \cup {AuthRequest(InputHeader(RequiredComponents, "web-bot-auth", "tp1", w, TRUE, TRUE, TRUE),
                        label, TRUE, TRUE, "k1", "https://a/x", "raw", "raw", url) :
               w \in {<<Undef, Undef>>, <<DecStr(1), DecStr(2)>>, <<DecStr(1), DecStr(100)>>,
                      <<DecStr(61), DecStr(62)>>},
               label \in {"sig1", "sig2"}, url \in {"https://a/x", "https://b/x", ""}}
    \* windows at the edges of the tolerance around WindowClock, of length 0, 1,
    \* 60 and 61; a window with one end left out, with created = 0, and with
    \* expires before created
      \cup {WindowRequest(DecStr(WindowClock + c), DecStr(WindowClock + c + e)) :
               c \in {0 - 121, 0 - 120, 0 - 62, 0 - 61, 0 - 60, 0, 60, 61}, e \in {0, 1, 60, 61}}
      \cup {WindowRequest(DecStr(WindowClock), Undef), WindowRequest(Undef, DecStr(WindowClock)),
            WindowRequest(DecStr(0), DecStr(WindowClock)),
            WindowRequest(DecStr(WindowClock), DecStr(1))}
    \* a malformed header; the raw PAYMENT-SIGNATURE header left out of the extension
      \cup {AuthRequest(InputHeader(RequiredComponents, "web-bot-auth", "tp1", <<Undef, Undef>>,
                                    f[1], f[2], f[3]),
                        "sig1", f[4], f[5], "k1", "https://a/x", f[6], f[7], "https://a/x") :
               f \in {<<FALSE, TRUE, TRUE, TRUE, TRUE, "raw", "raw">>,
                      <<TRUE, FALSE, TRUE, TRUE, TRUE, "raw", "raw">>,
                      <<TRUE, TRUE, FALSE, TRUE, TRUE, "raw", "raw">>,
                      <<TRUE, TRUE, TRUE, FALSE, TRUE, "raw", "raw">>,
                      <<TRUE, TRUE, TRUE, TRUE, FALSE, "raw", "raw">>,
                      <<TRUE, TRUE, TRUE, TRUE, TRUE, "raw", "">>,
                      <<TRUE, TRUE, TRUE, TRUE, TRUE, "reencoded-payload", "">>}}
    \* the extension or one of its headers missing
      \cup {[ValidRequest EXCEPT !.wba.present = FALSE],
            [ValidRequest EXCEPT !.wba.signatureAgent = ""],
            [ValidRequest EXCEPT !.wba.inputGiven = FALSE],
            [ValidRequest EXCEPT !.wba.sigGiven = FALSE]}
    \* the honest client with any accepted terms against the requirements a
    \* server states
      \cup {[ValidRequest EXCEPT !.accepted = acc, !.requirements = req] :
               acc \in JsonValues,
               req \in {JObj(<< >>),
                        JObj(<<JMember("a", JPrim("1"))>>),
                        JObj(<<JMember("a", JPrim("1")), JMember("b", JPrim("\"x\""))>>),
                        JObj(<<JMember("a", JObj(<<JMember("b", JPrim("1"))>>))>>),
                        JObj(<<JMember("a", JArr(<<JMember("", JPrim("1"))>>))>>)}}

\* the arguments of settle: requirements.extra.id absent, "1", 1 or "2"
CreditSettleRequests ==
    {[ValidRequest EXCEPT !.extraId = id] : id \in {"absent", "s1", "n1", "s2"}}

InitCredit ==
    /\ heap = << >>
    /\ store = [s \in SessionIds |-> 0]
    /\ pc = [c \in Calls |-> "idle"]
    /\ loc = [c \in Calls |-> IdleLoc]
    /\ now \in {0, WindowClock}
    /\ balance = [p \in Payers |-> StartBalance]
    /\ chainDelay = 1
    /\ config = CHOOSE cf \in Configs : TRUE
    /\ accepted = EmptyBag
    /\ last = NoReturn
    /\ credit = CreditIdle
    /\ withdrawRequests = [p \in Payers |-> [amount |-> 0, requestedAt |-> 0]]
    /\ client = ClientIdle
    /\ chainSessions = [s \in SessionIds |-> << >>]
    /\ server = ServerIdle("none")

\* the calls of the scheme; a signature agent serves one of five directories,
\* or fetchJwks throws with one of two messages
NextCredit ==
    \/ \E inp \in CreditVerifyRequests : CreditVerify(inp)
    \/ \E keys \in {<< >>, <<Jwk("OKP", "k1")>>, <<Jwk("OKP", "k2")>>, <<Jwk("RSA", "k1")>>,
                    <<Jwk("OKP", "k2"), Jwk("OKP", "k1")>>} : CreditFetchResolves(keys)
    \/ \E message \in {"jwks_fetch_failed:404", "fetch failed"} : CreditFetchThrows(message)
    \/ \E inp \in CreditSettleRequests : CreditSettle(inp)

SpecCredit == InitCredit /\ [][NextCredit]_vars

(* ------------------------------- C18 ---------------------------------- *)

\* the latest verify call got past the requirements binding
PassedBinding == credit.res.op = "verify" /\ credit.res.reason # "requirements_mismatch"

\* C18: verify passes the requirements binding exactly when
\* paymentPayload.accepted and the requirements are equal as JSON values up
\* to the order of object keys, and a mismatch is answered with isValid false
\* before any directory fetch.
C18_BindingIffJsonEqual ==
    credit.res.op = "verify" =>
        /\ PassedBinding <=> JsonEqual(credit.res.inp.accepted, credit.res.inp.requirements)
        /\ ~PassedBinding => ~credit.res.ok /\ ~credit.res.fetched

(* ------------------------------- C19 ---------------------------------- *)

\* C19: settle of the credit scheme is idempotent on requirements.extra.id:
\* every settlement returns the transaction "credit-ledger:<id>", a
\* settlement of the id settled just before returns the same transaction
\* again, and the call changes nothing but its own result (it charges nothing).
C19_SettleIdempotentOnId ==
    [][(credit'.res.op = "settle" /\ credit'.res # credit.res) =>
         /\ credit'.res.ok
         /\ credit'.res.transaction = <<"credit-ledger:", StringOfId(credit'.res.inp.extraId)>>
         /\ SettledJustBefore(credit'.res.inp) =>
                credit'.res.transaction = credit.res.transaction
         /\ credit'.pc = credit.pc /\ credit'.pending = credit.pending
         /\ UNCHANGED odpVars]_vars

\* an id has been settled twice in a row and the second call answered
C19_Witness ==
    /\ credit.res.op = "settle"
    /\ credit.res.again
    /\ credit.res.inp.extraId = "n1"
    /\ credit.res.transaction = <<"credit-ledger:", "1">>

(* ------------------------------- C20 ---------------------------------- *)

C21_AcceptedWindowAtMost60 ==
    (credit.res.op = "verify" /\ credit.res.ok) =>
        LET params == parseSignatureInput(credit.res.inp.wba.signatureInput).value.params IN
        /\ "created" \in DOMAIN params
        /\ "expires" \in DOMAIN params
        /\ BigInt(params["expires"]) - BigInt(params["created"]) <= 60

(* ------------------------------- C22 ---------------------------------- *)

\* the latest verify call was given the honest request with the window
\* created = now + c, expires = created + e (written after WindowClock, so
\* that no time is negative)
VerifiedWindow(c, e) ==
    /\ now >= WindowClock
    /\ credit.res.op = "verify"
    /\ credit.res.inp = WindowRequest(DecStr(now + c), DecStr(now + c + e))

RequestWithdraw(p, amount) ==
    /\ amount > 0
    /\ balance[p] >= amount
    /\ withdrawRequests' = [withdrawRequests EXCEPT ![p] = [amount |-> amount, requestedAt |-> now]]
    /\ last' = NoReturn
    /\ UNCHANGED <<heap, store, pc, loc, now, balance, chainDelay, config, accepted, credit, client, chainSessions, server>>

\* DebitWallet.withdraw, DebitWallet.sol lines 66-76, called by payer p; the
\* subtraction of line 73 reverts on underflow
Withdraw(p, amount) ==
    /\ withdrawRequests[p].amount > 0
    /\ withdrawRequests[p].amount = amount
    /\ now >= withdrawRequests[p].requestedAt + chainDelay
    /\ balance[p] >= amount
    /\ withdrawRequests' = [withdrawRequests EXCEPT ![p] = [amount |-> 0, requestedAt |-> 0]]
    /\ balance' = [balance EXCEPT ![p] = @ - amount]
    /\ last' = NoReturn
    /\ UNCHANGED <<heap, store, pc, loc, now, chainDelay, config, accepted, credit, client, chainSessions, server>>

\* verify and settle one call at a time, while the clock advances and the
\* payer p1 requests and executes withdrawals
NextWallet ==
    \/ CallSteps({1}, VerifyRequests, SettleRequests)
    \/ TickLate
    \/ \E amount \in 1 .. MaxSpendUnits : RequestWithdraw("p1", amount)
    \/ \E amount \in 1 .. MaxSpendUnits : Withdraw("p1", amount)

SpecWallet == InitReq /\ [][NextWallet]_vars

(* ------------------------------- C24 ---------------------------------- *)

\* C24: the withdrawal delay keeps the funds that verify counted on: in the
\* step that follows an acceptance by verify (the clock has not moved, so less
\* than withdrawDelaySeconds have passed since the acceptance) the payer's
\* debit-wallet balance is not lowered by a withdrawal.
C24_NoWithdrawalRightAfterAcceptance ==
    [][(last.op = "verify" /\ last.res = "ok" /\ chainDelay >= 1) =>
           balance'["p1"] >= balance["p1"]]_vars

\* ---------------------------------------------------------------------------
\* C23: replay protection of the credit verify. A payment (PAYMENT-SIGNATURE,
\* Signature-Input, Signature and requirements.extra.id all the same) that
\* verify accepted is rejected when it is presented to verify again: whenever
\* a verify call completes for exactly the input that the accepted verify
\* before it was given, it does not accept.
C23_AcceptedPaymentRejectedAgain ==
    [][(/\ credit.res.op = "verify"
        /\ credit.res.ok
        /\ credit.pc = "fetch"
        /\ credit.inp = credit.res.inp
        /\ credit'.pc = "idle")
           => ~credit'.res.ok]_vars

(* ----------------------- order of the verify checks ------------------- *)

\* verify arguments that break up to two of the checks of verify at once: each
\* name in F alters the well-formed request of payer p1 so that one check fails
\* ("none" alters nothing); one fault of every check is paired with every other
OrderVerifyRequests ==
    LET Paired == {"scheme", "network", "extras", "receipt", "sessionId", "contract",
                   "sessionSignature", "processors", "signature", "nonce", "amount",
                   "deadline", "requestHash", "spend", "balance"}
        Single == {"none", "receiptSignature", "debitWallet", "delay", "noApproval",
                   "processorsHash", "payee", "limit"}
        FaultyRequest(n, F) ==
            LET receiptAmount == IF "balance" \in F THEN StartBalance + 1
                                 ELSE IF "spend" \in F THEN 2 ELSE 1
                maxSpend == IF "spend" \in F THEN 1
                            ELSE IF "balance" \in F THEN StartBalance + 1 ELSE MaxSpendUnits
                processorsHash == IF ("processors" \in F) = ("processorsHash" \in F)
                                  THEN ZERO_BYTES32 ELSE "h:other"
                r == Request("s1", "p1", "noApproval" \notin F,
                             Receipt("s1", DecStr(IF "nonce" \in F THEN 5 ELSE n),
                                     DecStr(receiptAmount),
                                     DecStr(IF "deadline" \in F THEN Expiry + 1 ELSE MaxTime)),
                             IF "signature" \in F THEN "p2" ELSE "p1")
            IN [r EXCEPT
                  !.accepted.scheme = IF "scheme" \in F THEN "exact" ELSE @,
                  !.accepted.network = IF "network" \in F THEN "eip155:1" ELSE @,
                  !.hasReceipt = "receipt" \notin F,
                  !.receiptSignature = IF "receiptSignature" \in F THEN "" ELSE @,
                  !.receipt.requestHash = IF "requestHash" \in F THEN "0xbad" ELSE @,
                  !.sessionSignature = IF "noApproval" \in F THEN ""
                                       ELSE IF "sessionSignature" \in F THEN SigOf("p2") ELSE @,
                  !.sessionApproval.authorizedProcessorsHash = processorsHash,
                  !.sessionApproval.payee = IF "payee" \in F THEN Addr("mallory") ELSE @,
                  !.sessionApproval.maxSpend = DecStr(maxSpend),
                  !.requirements.amount =
                      DecStr(IF "amount" \in F THEN receiptAmount + 1 ELSE receiptAmount),
                  !.requirements.extra.maxSpend = DecStr(maxSpend),
                  !.requirements.extra.startNonce = IF "extras" \in F THEN Undef ELSE @,
                  !.requirements.extra.sessionId = IF "sessionId" \in F THEN "s2" ELSE @,
                  !.requirements.extra.settlementContract =
                      IF "contract" \in F THEN Addr("other") ELSE @,
                  !.requirements.extra.debitWallet =
                      IF "debitWallet" \in F THEN Addr("other") ELSE @,
                  !.requirements.extra.withdrawDelaySeconds =
                      IF "delay" \in F THEN DecStr(2) ELSE @,
                  !.requirements.extra.authorizedProcessors =
                      IF "processors" \in F THEN {Addr("other")} ELSE @,
                  !.requirements.extra.maxAmountPerReceipt =
                      IF "limit" \in F THEN DecStr(0) ELSE @]
    IN {FaultyRequest(0, {a, b}) : a \in Paired, b \in Paired}
         \cup {FaultyRequest(n, {a}) : n \in 0 .. 1, a \in Single}

\* one call at a time on these arguments, the clock advancing between the steps
NextOrder ==
    \/ CallSteps({1}, OrderVerifyRequests, SettleRequests)
    \/ Tick

SpecOrder == Init /\ [][NextOrder]_vars

\* ---------------------------------------------------------------------------
\* C25: the invalidReason verify returns is that of the earliest failing check
\* in the order scheme, network, extras, receipt and receiptSignature present,
\* sessionId, contract/debit-wallet/delay parity, session approval or lookup,
\* processor authorization, debit-wallet delay, receipt signature, nonce,
\* amount, deadline, requestHash, maxSpend, balance: whenever a verify call
\* returns isValid: false, the check its reason belongs to fails for the
\* arguments and no check before it in the order does. So a receipt wrong in
\* nonce and amount yields receipt_nonce_mismatch, and one over both maxSpend
\* and the balance yields session_max_spend_exceeded.
C25_ReasonOfEarliestFailingCheck ==
    [][(pc'[1] = "idle" /\ last'.op = "verify" /\ last'.res \notin {"ok", "throw"}) =>
          LET
              \* the checks of verify, lines 137-434, each on its own: element k tells whether
              \* the k-th check of the order (scheme, network, extras, receipt and
              \* receiptSignature present, sessionId, contract/debit-wallet/delay parity,
              \* session approval or lookup, processor authorization, debit-wallet delay,
              \* receipt signature, nonce, amount, deadline, requestHash, maxSpend, balance)
              \* fails for arguments inp, when stored is what the store holds for the session
              \* and t is the clock
              CheckFails(inp, stored, t) ==
                  LET req == inp.requirements
                      extras == parseOdpDeferredExtras(req.extra)
                      receipt == inp.receipt
                      sa == inp.sessionApproval
                      approval == IF inp.hasApproval \/ stored = << >> THEN sa ELSE stored[1].approval
                      sessionRecord == IF stored = << >>
                                       THEN newSessionRecord(sa, inp.sessionSignature, extras)
                                       ELSE stored[1]
                      wallet == getDebitWalletState(approval.payer)
                      nextSpend == sessionRecord.spent + BigInt(receipt.amount)
                  IN
                  << inp.accepted.scheme # Scheme \/ req.scheme # Scheme,
                     inp.accepted.network # req.network,
                     parseError(req.extra) # "",
                     ~inp.hasReceipt \/ inp.receiptSignature = "",
                     receipt.sessionId # extras.sessionId,
                     \/ getAddress(extras.settlementContract) # Config.settlementContract
                     \/ getAddress(extras.debitWallet) # Config.debitWallet
                     \/ extras.withdrawDelaySeconds # Config.withdrawDelaySeconds,
                     \/ inp.hasApproval /\ verifyApprovalStatic(inp) # "ok"
                     \/ inp.hasApproval /\ ~verifyTypedData(sa.payer, inp.sessionSignature)
                     \/ inp.hasApproval /\ ~approvalMatchesRequirements(sa, req)
                     \/ inp.hasApproval /\ stored # << >> /\ ~approvalMatchesStored(stored[1].approval, sa)
                     \/ ~inp.hasApproval /\ stored = << >>
                     \/ sessionRecord.settlementContract # extras.settlementContract
                     \/ ~approvalMatchesRequirements(approval, req),
                     ~isAuthorizedProcessor(extras.authorizedProcessors),
                     wallet.withdrawDelaySeconds # BigInt(extras.withdrawDelaySeconds),
                     ~verifyTypedData(approval.payer, inp.receiptSignature),
                     receipt.nonce # DecStr(sessionRecord.nextNonce),
                     amountChecks(receipt, req, extras) # "ok",
                     deadlineChecks(receipt, approval, req, t) # "ok",
                     receipt.requestHash # normalizeRequestHash(extras.requestHash),
                     nextSpend > BigInt(approval.maxSpend),
                     nextSpend > wallet.balance >>
              Reasons ==
                  << {"unsupported_scheme"}, {"network_mismatch"},
                     {"Invalid odp-deferred extra.sessionId", "Invalid odp-deferred extra.startNonce",
                      "Invalid odp-deferred extra.maxSpend", "Invalid odp-deferred extra.expiry"},
                     {"invalid_odp_payload_missing_receipt", "missing_receipt_signature"},
                     {"session_id_mismatch"},
                     {"settlement_contract_mismatch", "debit_wallet_mismatch", "withdraw_delay_mismatch"},
                     {"missing_session_signature", "authorized_processors_hash_mismatch",
                      "invalid_session_signature", "session_approval_mismatch",
                      "missing_session_approval", "requirements_session_mismatch"},
                     {"unauthorized_processor"}, {"debit_wallet_withdraw_delay_mismatch"},
                     {"invalid_receipt_signature"}, {"receipt_nonce_mismatch"},
                     {"receipt_amount_mismatch", "receipt_amount_exceeds_max"},
                     {"receipt_deadline_invalid", "session_expired"},
                     {"request_hash_mismatch"}, {"session_max_spend_exceeded"},
                     {"insufficient_debit_wallet_balance"} >>
              Earliest(inp) ==
                  LET fails == CheckFails(inp, StoredView(heap, store, "s1"), now) IN
                  \E k \in DOMAIN Reasons :
                      /\ last'.res \in Reasons[k]
                      /\ fails[k]
                      /\ \A j \in 1 .. (k - 1) : ~fails[j]
          IN
          /\ pc[1] = "idle" =>
                \A inp \in OrderVerifyRequests : VerifyStart(1, inp) => Earliest(inp)
          /\ pc[1] # "idle" => Earliest(loc[1].inp)]_vars

\* a call about to be turned away for its nonce whose receipt is wrong in
\* amount too
C25_Witness ==
    /\ pc[1] = "v_receipt"
    /\ verifyReceiptChecks(heap[loc[1].rec], loc[1].approval, loc[1].inp, loc[1].balance, now)
          = "receipt_nonce_mismatch"
    /\ loc[1].inp.receipt.amount # loc[1].inp.requirements.amount

\* ---------------------------------------------------------------------------
\* C26: a settle call that returns success: false or throws leaves receipts,
\* spent and nextNonce of the stored session as they were, and a settle
\* called right after a settle that succeeded and emptied the receipts returns
\* no_receipts at once and changes none of the three either.
C26_FailedSettleChangesNothing ==
    [][LET before == StoredView(heap, store, "s1")
           after == StoredView(heap', store', "s1")
           Same == /\ Len(after) = Len(before)
                   /\ Len(before) = 1 =>
                        /\ after[1].receipts = before[1].receipts
                        /\ after[1].spent = before[1].spent
                        /\ after[1].nextNonce = before[1].nextNonce
       IN
       /\ (last'.op = "settle" /\ last'.res # "ok") => Same
       /\ (/\ last.op = "settle" /\ last.res = "ok"
           /\ before[1].receipts = << >>
           /\ last'.op = "settle" /\ pc' = pc)
             => (last'.res = "no_receipts" /\ Same)]_vars

\* ---------------------------------------------------------------------------
\* C27: a receipt that verify accepted while a settle of its session was in
\* flight is still stored when that settle completes: the step in which a
\* settle returns removes from the stored receipts none whose nonce lies
\* outside the batch of the call, and leaves the stored nextNonce and spent,
\* which count the concurrent acceptance, as they were.
C27_SettleKeepsConcurrentAcceptance ==
    [][\A c \in Calls :
         (pc[c] \in SettlePcs /\ pc'[c] = "idle") =>
            LET sid == loc[c].inp.receipt.sessionId
                batch == loc[c].batch
                before == heap[store[sid]]
                after == heap'[store'[sid]]
                InBatch(entry) ==
                    /\ BigInt(entry.nonce) >= BigInt(batch[1].nonce)
                    /\ BigInt(entry.nonce) <= BigInt(batch[Len(batch)].nonce)
            IN /\ \A i \in 1 .. Len(before.receipts) :
                     ~InBatch(before.receipts[i]) =>
                        \E j \in 1 .. Len(after.receipts) :
                            after.receipts[j] = before.receipts[i]
               /\ after.nextNonce = before.nextNonce
               /\ after.spent = before.spent]_vars

(* ------------------------- sessions of one payer ---------------------- *)

\* the facilitator before any call, its store able to hold two sessions
InitSessions ==
    /\ heap = << >>
    /\ store = [s \in {"s1", "s2"} |-> 0]
    /\ pc = [c \in Calls |-> "idle"]
    /\ loc = [c \in Calls |-> IdleLoc]
    /\ now = 0
    /\ balance = [p \in Payers |-> StartBalance]
    /\ chainDelay = 1
    /\ config \in Configs
    /\ accepted = EmptyBag
    /\ last = NoReturn
    /\ credit = CreditIdle
    /\ withdrawRequests = [p \in Payers |-> [amount |-> 0, requestedAt |-> 0]]
    /\ client = ClientIdle
    /\ chainSessions = [s \in SessionIds |-> << >>]
    /\ server = ServerIdle("none")

\* payer p1 opens two sessions on the same asset and sends receipts in both,
\* one call at a time; either session is settled
NextSessions ==
    \/ CallSteps({1},
                 {Request(sid, "p1", withApproval,
                          Receipt(sid, DecStr(n), DecStr(1), DecStr(MaxTime)), "p1") :
                      sid \in {"s1", "s2"}, withApproval \in BOOLEAN, n \in 0 .. MaxSpendUnits},
                 {Request(sid, "p1", FALSE,
                          Receipt(sid, DecStr(0), DecStr(1), DecStr(MaxTime)), "p1") :
                      sid \in {"s1", "s2"}})
    \/ Tick

SpecSessions == InitSessions /\ [][NextSessions]_vars

\* ---------------------------------------------------------------------------
\* C28: for one payer and asset, the accepted receipts not yet settled, summed
\* over all sessions of the payer, never exceed the debit-wallet balance read
\* for the most recent acceptance: when verify accepts a receipt, the amounts
\* of the receipts then stored in the payer's sessions sum to at most the
\* balance that call read.
C28_UnsettledAcrossSessionsWithinBalance ==
    [][\A c \in Calls :
         VerifyAccepts(c) =>
            LET Unsettled(sid) ==
                    IF \/ store'[sid] = 0
                       \/ heap'[store'[sid]].approval.payer # loc[c].approval.payer
                    THEN 0
                    ELSE SeqSum(heap'[store'[sid]].receipts)
            IN Unsettled("s1") + Unsettled("s2") <= loc[c].balance]_vars

(* --------------------- client: createPaymentPayload ------------------- *)
\* register.ts lines 41-222, the OdpDeferredEvmScheme of the client. All calls
\* carry the same paymentRequirements, those of session s1, so that
\* ensureSessionMatchesRequirements (lines 135-160) never throws. client.states
\* holds the ClientSessionState objects by identity and client.sessions the
\* one stored under the session key (0 = none).

\* createPaymentPayload, lines 56-98: up to the first await, which is
\* signSessionApproval when the session is unknown and signReceipt otherwise
CreatePaymentPayload(c) ==
    LET sessionState == client.sessions IN
    /\ client.calls[c].pc = "idle"
    /\ client.started < MaxPayloads
    /\ UNCHANGED <<heap, store, pc, loc, now, balance, chainDelay, config, accepted, last,
                   credit, withdrawRequests, chainSessions, server>>
    /\ IF sessionState = 0
       THEN client' = [client EXCEPT !.started = @ + 1,
                                     !.calls[c].pc = "signSessionApproval"]
       ELSE client' = [client EXCEPT !.started = @ + 1,
                                     !.calls[c] = [pc |-> "signReceipt",
                                                   sessionState |-> sessionState,
                                                   nonce |-> client.states[sessionState].nextNonce,
                                                   includeSessionApproval |-> FALSE]]

\* createPaymentPayload, lines 83-98: signSessionApproval has resolved; a new
\* session state enters the map and the receipt is built from its nextNonce
SessionApprovalSigned(c) ==
    LET sessionState == Len(client.states) + 1
        nextNonce == BigInt(GoodExtra("s1").startNonce)
    IN
    /\ client.calls[c].pc = "signSessionApproval"
    /\ UNCHANGED <<heap, store, pc, loc, now, balance, chainDelay, config, accepted, last,
                   credit, withdrawRequests, chainSessions, server>>
    /\ client' = [client EXCEPT !.states = Append(@, [nextNonce |-> nextNonce]),
                                !.sessions = sessionState,
                                !.calls[c] = [pc |-> "signReceipt",
                                              sessionState |-> sessionState,
                                              nonce |-> nextNonce,
                                              includeSessionApproval |-> TRUE]]

\* createPaymentPayload, lines 98-114: signReceipt has resolved; nextNonce of
\* the session state the call holds is raised and the payload returned
ReceiptSigned(c) ==
    /\ client.calls[c].pc = "signReceipt"
    /\ UNCHANGED <<heap, store, pc, loc, now, balance, chainDelay, config, accepted, last,
                   credit, withdrawRequests, chainSessions, server>>
    /\ client' = [client EXCEPT !.states[client.calls[c].sessionState].nextNonce = @ + 1,
                                !.returned = Append(@, client.calls[c].nonce),
                                !.calls[c] = ClientIdle.calls[c]]

\* signer.signTypedData rejects (lines 83 and 98): the call throws, returning nothing
SignerRejects(c) ==
    /\ client.calls[c].pc \in {"signSessionApproval", "signReceipt"}
    /\ UNCHANGED <<heap, store, pc, loc, now, balance, chainDelay, config, accepted, last,
                   credit, withdrawRequests, chainSessions, server>>
    /\ client' = [client EXCEPT !.calls[c] = ClientIdle.calls[c]]

\* concurrent createPaymentPayload calls for one session
NextClient ==
    \/ \E c \in 1 .. MaxClientCalls : CreatePaymentPayload(c)
    \/ \E c \in 1 .. MaxClientCalls : SessionApprovalSigned(c)
    \/ \E c \in 1 .. MaxClientCalls : ReceiptSigned(c)
    \/ \E c \in 1 .. MaxClientCalls : SignerRejects(c)

SpecClient == Init /\ [][NextClient]_vars

\* ---------------------------------------------------------------------------
\* C29: under any interleaving of concurrent createPaymentPayload calls of the
\* client for one sessionId, the receipts it returns carry pairwise distinct
\* nonces, and once k calls have returned and none is in progress the
\* session's nextNonce is startNonce + k.
C29_ClientNoncesDistinct ==
    /\ \A i, j \in 1 .. Len(client.returned) :
          i # j => client.returned[i] # client.returned[j]
    /\ (client.sessions # 0 /\ \A c \in 1 .. MaxClientCalls : client.calls[c].pc = "idle") =>
          client.states[client.sessions].nextNonce =
              BigInt(GoodExtra("s1").startNonce) + Len(client.returned)

(* ------------------- settlement on the reference contract ------------- *)

\* OdpSettlementWallet.settleSession (Deploy.s.sol lines 138-181) and
\* DebitWallet.settleFrom (DebitWallet.sol lines 78-83), called by the
\* writeContract of settle (part_001 lines 622-627): the transaction succeeds
\* when every require passes and reverts otherwise. The facilitator is an
\* allowlisted processor and the contract's processorsHash is zero.
SettleSession(c) ==
    LET rec == loc[c].rec
        approval == heap[rec].approval
        state == chainSessions[approval.sessionId]
        startNonce == loc[c].startNonce
        endNonce == loc[c].endNonce
        totalAmount == loc[c].total
        opened == IF state = << >>
                  THEN [approval |-> approval, nextNonce |-> BigInt(approval.startNonce),
                        spent |-> 0]
                  ELSE state[1]
        passes == /\ totalAmount > 0
                  /\ startNonce <= endNonce
                  /\ now <= BigInt(approval.expiry)
                  /\ state = << >> => verifyTypedData(approval.payer, heap[rec].sessionSignature)
                  /\ state # << >> => state[1].approval = approval
                  /\ startNonce = opened.nextNonce
                  /\ opened.spent + totalAmount <= BigInt(approval.maxSpend)
                  /\ balance[approval.payer.id] >= totalAmount
    IN
    /\ pc[c] = "s_write"
    /\ chainSessions' =
          IF passes
          THEN [chainSessions EXCEPT ![approval.sessionId] =
                   <<[opened EXCEPT !.nextNonce = endNonce + 1, !.spent = @ + totalAmount]>>]
          ELSE chainSessions
    /\ balance' = IF passes
                  THEN [balance EXCEPT ![approval.payer.id] = @ - totalAmount] ELSE balance
    /\ pc' = [pc EXCEPT ![c] = "s_wait"]
    /\ loc' = [loc EXCEPT ![c].txStatus = IF passes THEN "success" ELSE "reverted"]
    /\ last' = NoReturn
    /\ heap' = Collect(heap, store, loc')
    /\ UNCHANGED <<store, now, chainDelay, config, accepted, credit, withdrawRequests, client,
                   server>>

\* verify and settle called one at a time in onchain mode against the reference
\* contract, no call of the chain failing, the clock running past the expiry
NextLive ==
    \/ \E inp \in VerifyRequests : VerifyStart(1, inp)
    \/ VerifyApproval(1)
    \/ VerifyWallet(1)
    \/ VerifyReceipt(1)
    \/ \E inp \in SettleRequests : SettleStart(1, inp)
    \/ SettleWallet(1)
    \/ SettleSession(1)
    \/ SettleWait(1)
    \/ TickLate

\* the scheduler keeps invoking settle (runAutoSettlement under setInterval,
\* part_012 lines 210-292) and every await of a call in progress resolves
SpecLive ==
    /\ InitReq
    /\ [][NextLive]_vars
    /\ SF_vars(\E inp \in SettleRequests : SettleStart(1, inp))
    /\ WF_vars(SettleWallet(1))
    /\ WF_vars(SettleSession(1))
    /\ WF_vars(SettleWait(1))
    /\ WF_vars(VerifyApproval(1))
    /\ WF_vars(VerifyWallet(1))
    /\ WF_vars(VerifyReceipt(1))

\* ---------------------------------------------------------------------------
\* C30: in onchain mode, with settle invoked again and again, a balance that
\* covers the receipts and the reference settlement contract, every receipt
\* verify accepted is eventually removed from the session by a successful
\* settlement, whenever the first settlement attempt is made: a receipt of
\* any nonce that is stored for the session is later no longer stored.
C30_AcceptedReceiptEventuallySettled ==
    \A n \in 0 .. (MaxSpendUnits - 1) :
        (/\ store["s1"] # 0
         /\ \E i \in 1 .. Len(heap[store["s1"]].receipts) :
                BigInt(heap[store["s1"]].receipts[i].nonce) = n)
          ~> (\/ store["s1"] = 0
              \/ \A i \in 1 .. Len(heap[store["s1"]].receipts) :
                     BigInt(heap[store["s1"]].receipts[i].nonce) # n)

(* --------------- a balance of exactly maxSpend, a failing chain -------- *)

\* the payer's debit wallet holds exactly the maxSpend of the session approval
InitChain ==
    /\ heap = << >>
    /\ store = [s \in SessionIds |-> 0]
    /\ pc = [c \in Calls |-> "idle"]
    /\ loc = [c \in Calls |-> IdleLoc]
    /\ now = 0
    /\ balance = [p \in Payers |-> BigInt(GoodApproval("s1", p).maxSpend)]
    /\ chainDelay = 1
    /\ config \in {cf \in Configs : cf.settlementMode = "onchain"}
    /\ accepted = EmptyBag
    /\ last = NoReturn
    /\ credit = CreditIdle
    /\ withdrawRequests = [p \in Payers |-> [amount |-> 0, requestedAt |-> 0]]
    /\ client = ClientIdle
    /\ chainSessions = [s \in SessionIds |-> << >>]
    /\ server = ServerIdle("none")

\* verify and settle called one at a time in onchain mode against the reference
\* contract; writeContract may reject before the transaction is sent and
\* waitForTransactionReceipt may reject after it was mined
NextChain ==
    \/ NextLive
    \/ SettleChainThrows(1)

SpecChain == InitChain /\ [][NextChain]_vars

\* ---------------------------------------------------------------------------
\* C31: with a debit-wallet balance of at least maxSpend when the session opens
\* that changes only through this session's on-chain settlements, verify accepts
\* every in-order, well-formed receipt whose cumulative session total stays
\* within maxSpend, however settle calls are interleaved between the verifies:
\* a receipt that passes every receipt check against a balance of maxSpend is
\* accepted.
C31_ReceiptWithinMaxSpendAccepted ==
    [][(/\ pc[1] = "v_receipt"
        /\ pc'[1] = "idle"
        /\ verifyReceiptChecks(heap[loc[1].rec], loc[1].approval, loc[1].inp,
                               BigInt(loc[1].approval.maxSpend), now) = "ok")
         => last'.res = "ok"]_vars

\* ---------------------------------------------------------------------------
\* C32: in onchain mode every settleSession call the facilitator submits for a
\* session has startNonce equal to the nextNonce the settlement contract holds
\* for that session (approval.startNonce before the first successful
\* submission), whatever the outcome of the earlier submissions: success,
\* revert, or an error raised while sending the transaction or waiting for its
\* receipt.
C32_SubmittedStartNonceIsContractNextNonce ==
    [][(pc[1] = "s_write" /\ pc'[1] = "s_wait") =>
          LET approval == heap[loc[1].rec].approval
              state == chainSessions[approval.sessionId]
          IN loc[1].startNonce = IF state = << >> THEN BigInt(approval.startNonce)
                                 ELSE state[1].nextNonce]_vars

\* ---------------------------------------------------------------------------
\* C33: in every reachable state the stored receipts of a session have strictly
\* consecutive nonces in list order and, when the list is non-empty, the last
\* nonce equals nextNonce - 1; so the contiguity assertion of settle holds for
\* the batch of every settle call that reaches it and settle never returns
\* receipt_nonce_gap.
C33_StoredReceiptsConsecutiveNoGap ==
    /\ \A sid \in SessionIds :
          store[sid] # 0 =>
              LET receipts == heap[store[sid]].receipts IN
              /\ \A i \in 1 .. (Len(receipts) - 1) :
                     BigInt(receipts[i + 1].nonce) = BigInt(receipts[i].nonce) + 1
              /\ receipts # << >> =>
                     BigInt(receipts[Len(receipts)].nonce) = heap[store[sid]].nextNonce - 1
    /\ \A c \in Calls : pc[c] = "s_wallet" => batchContiguous(loc[c].batch)
    /\ last.res # "receipt_nonce_gap"

\* a settle call is about to assert contiguity over a batch of two receipts
C33_Witness ==
    \E c \in Calls :
        /\ pc[c] = "s_wallet"
        /\ Len(loc[c].batch) = 2
        /\ store[loc[c].inp.receipt.sessionId] = loc[c].rec

\* ---------------------------------------------------------------------------
\* C38: a receipt presented when its session approval has expired
\* (approval.expiry < now), with every check that precedes the deadline step
\* passing (receipt signature, nonce, amount), is rejected by verify with
\* invalidReason session_expired.
C38_ExpiredSessionReportedAsExpired ==
    [][(/\ VerifyDecides(1)
        /\ ReceiptInOrder(1)
        /\ amountChecks(loc[1].inp.receipt, loc[1].inp.requirements,
                        parseOdpDeferredExtras(loc[1].inp.requirements.extra)) = "ok"
        /\ BigInt(loc[1].approval.expiry) < now)
         => last'.res = "session_expired"]_vars

\* ---------------------------------------------------------------------------
\* C39: when an outbound call made during verify fails (the debit-wallet read
\* of the odp-deferred verify, the directory fetch of the credit verify), verify
\* returns isValid: false with invalidReason debit_wallet_withdraw_delay_mismatch
\* (odp-deferred) or invalid_web_bot_auth (credit); it neither throws nor
\* reports success, and no receipt is accepted. A verify call that ends at its
\* debit-wallet read returns debit_wallet_withdraw_delay_mismatch and accepts
\* nothing, and a credit verify whose fetch throws returns invalid_web_bot_auth.
C39_FailedOutboundCallIsMappedReason ==
    [][/\ \A c \in Calls :
            (pc[c] = "v_wallet" /\ pc'[c] = "idle") =>
                /\ last'.res = "debit_wallet_withdraw_delay_mismatch"
                /\ accepted' = accepted
       /\ (\E message \in {"jwks_fetch_failed:404", "fetch failed"} : CreditFetchThrows(message))
             => (~credit'.res.ok /\ credit'.res.reason = "invalid_web_bot_auth")]_vars

\* ---------------------------------------------------------------------------
\* C40: a Signature-Input that covers "payment-signature", "signature-agent"
\* and "@authority" plus additional components, and is otherwise valid and
\* correctly signed, is accepted by the verifier: a verify call of the honest
\* client whose Signature-Input also covers the header x-extra reaches the
\* directory fetch and is accepted once the directory returns the client's key.
C40_ExtraComponentsAccepted ==
    [][LET covered == <<"payment-signature", "signature-agent", "@authority", "x-extra">>
           inp == AuthRequest(InputHeader(covered, "web-bot-auth", "tp1", <<Undef, Undef>>,
                                          TRUE, TRUE, TRUE),
                              "sig1", TRUE, TRUE, "k1", "https://a/x", "raw", "raw", "https://a/x")
       IN /\ (credit.pc = "idle" /\ CreditVerify(inp)) => credit'.pc = "fetch"
          /\ (credit.pc = "fetch" /\ credit.inp = inp
                /\ CreditFetchResolves(<<Jwk("OKP", "k1")>>)) => credit'.res.ok]_vars

(* ----------------- facilitator services: auto-settlement --------------- *)

\* a timer tick starts runAutoSettlement (part_012 lines 210-213 and 288-292,
\* route.ts lines 206-209 and 276-278, facilitator.ts lines 233-238 and
\* 270-274); with nothing pending the run returns at once
RunAutoSettlement(r) ==
    /\ server.kind # "none"
    /\ server.sync = 0
    /\ ~server.stopped
    /\ server.runs[r].at = "idle"
    /\ \A q \in 1 .. (r - 1) : server.runs[q].at # "idle"
    /\ \E i \in DOMAIN server.pending : server.pending[i].live
    /\ \E c \in Calls : pc[c] = "idle" /\ (DOMAIN store = {"s1"} \/ c = 1)
    /\ server' = [server EXCEPT !.runs[r].at = "loop", !.runs[r].pos = 0,
                                !.runs[r].startedAt = now, !.sync = r]
    /\ last' = NoReturn
    /\ UNCHANGED <<heap, store, pc, loc, now, balance, chainDelay, config, accepted, credit,
                   withdrawRequests, client, chainSessions>>

\* runAutoSettlement, one pass of its loop that calls nothing (part_012 lines
\* 223-239, route.ts lines 216-233, facilitator.ts lines 239-242), or the end
\* of the loop
RunSkip(r) ==
    LET i == nextEntry(server, r)
        decision == entryDecision(server, r, server.pending[i], config.maxReceiptsPerSettlement)
    IN
    /\ server.sync = r
    /\ i # 0 => decision # "settle"
    /\ server' =
          IF i = 0
          THEN [server EXCEPT !.runs[r] = ServerIdle("none").runs[r], !.sync = 0,
                              !.pending = IF \E q \in DOMAIN server.runs \ {r} :
                                                 server.runs[q].at # "idle"
                                          THEN @ ELSE SelectSeq(@, LAMBDA e : e.live)]
          ELSE [server EXCEPT !.runs[r].pos = i,
                              !.pending = IF decision = "delete"
                                          THEN pendingDelete(@, server.pending[i].sid, TRUE)
                                          ELSE @]
    /\ last' = NoReturn
    /\ UNCHANGED <<heap, store, pc, loc, now, balance, chainDelay, config, accepted, credit,
                   withdrawRequests, client, chainSessions>>

\* runAutoSettlement calls settle for its next entry (part_012 lines 241-247,
\* route.ts lines 235-241, facilitator.ts lines 244-248)
RunSettle(r, c) ==
    LET i == nextEntry(server, r) IN
    /\ server.sync = r
    /\ i # 0
    /\ entryDecision(server, r, server.pending[i], config.maxReceiptsPerSettlement) = "settle"
    /\ SettleStart(c, server.pending[i].inp[1])

\* stop() of the service route.ts returns (lines 295-309): clearInterval and
\* server.close
Stop ==
    /\ server.kind = "route"
    /\ server.sync = 0
    /\ ~server.stopped
    /\ server' = [server EXCEPT !.stopped = TRUE]
    /\ last' = NoReturn
    /\ UNCHANGED <<heap, store, pc, loc, now, balance, chainDelay, config, accepted, credit,
                   withdrawRequests, client, chainSessions>>

\* a service after start-up, with one session to come or, for that of
\* route.ts, two; all settle in synthetic mode here, and facilitator.ts
\* registers the scheme without maxReceiptsPerSettlement
InitServer ==
    /\ heap = << >>
    /\ \E kind \in {"part_012", "route", "example"}, sessions \in {{"s1"}, {"s1", "s2"}} :
          /\ sessions = {"s1", "s2"} => kind = "route"
          /\ server = ServerIdle(kind)
          /\ store = [s \in sessions |-> 0]
          /\ config \in {cf \in Configs : /\ cf.settlementMode = "synthetic"
                                          /\ kind = "example" => cf.maxReceiptsPerSettlement = 0}
    /\ pc = [c \in Calls |-> "idle"]
    /\ loc = [c \in Calls |-> IdleLoc]
    /\ now = 0
    /\ balance = [p \in Payers |-> StartBalance]
    /\ chainDelay = 1
    /\ accepted = EmptyBag
    /\ last = NoReturn
    /\ credit = CreditIdle
    /\ withdrawRequests = [p \in Payers |-> [amount |-> 0, requestedAt |-> 0]]
    /\ client = ClientIdle
    /\ chainSessions = [s \in SessionIds |-> << >>]

\* requests arrive at POST /verify (and at POST /settle of facilitator.ts)
\* until the service is stopped, the calls in progress go on, timer ticks
\* start runAutoSettlement, and a run goes on without interruption up to its
\* next await; a service takes two calls at once on one session and one at a
\* time on two
NextServer ==
    LET Slots == IF DOMAIN store = {"s1"} THEN Calls ELSE {1} IN
    \/ \E c \in Slots, sid \in DOMAIN store, n \in 0 .. (MaxSpendUnits - 1) :
          /\ server.sync = 0
          /\ ~server.stopped
          /\ VerifyStart(c, Request(sid, "p1", TRUE,
                                    Receipt(sid, DecStr(n), DecStr(1), DecStr(MaxTime)), "p1"))
    \/ \E c \in Slots : server.sync = 0 /\ VerifyApproval(c)
    \/ \E c \in Slots : server.sync = 0 /\ VerifyWallet(c)
    \/ \E c \in Slots : server.sync = 0 /\ VerifyReceipt(c)
    \/ \E c \in Slots, inp \in SettleRequests :
          /\ server.sync = 0
          /\ ~server.stopped
          /\ server.kind = "example"
          /\ SettleStart(c, inp)
    \/ \E c \in Slots : server.sync = 0 /\ SettleWallet(c)
    \/ \E c \in Slots : server.sync = 0 /\ SettleWalletThrows(c)
    \/ \E r \in 1 .. MaxRuns : RunAutoSettlement(r)
    \/ \E r \in 1 .. MaxRuns : RunSkip(r)
    \/ \E r \in 1 .. MaxRuns, c \in Slots : RunSettle(r, c)
    \/ Stop

SpecServer == InitServer /\ [][NextServer]_vars

\* ---------------------------------------------------------------------------
\* C34: the auto-settlement scheduler of part_012 and route.ts calls settle only
\* for pending sessions whose settling flag is false and whose receipt count is
\* positive, and never has two of its own settle calls in flight for the same
\* session, even when a timer tick starts runAutoSettlement while an earlier
\* run is still awaiting a settle.
C34_SchedulerSettlesUnflaggedOnce ==
    [][server.kind \in {"part_012", "route"} =>
          /\ (/\ server.sync # 0
              /\ \/ last'.op = "settle"
                 \/ \E c \in Calls : pc[c] = "idle" /\ pc'[c] \in SettlePcs)
                => LET i == nextEntry(server, server.sync) IN
                   /\ i # 0
                   /\ server.pending[i].live
                   /\ ~server.pending[i].settling
                   /\ server.pending[i].receiptCount > 0
          /\ \A r1, r2 \in 1 .. MaxRuns :
                (/\ r1 # r2
                 /\ server'.runs[r1].at = "await"
                 /\ server'.runs[r2].at = "await")
                   => server'.runs[r1].sid # server'.runs[r2].sid]_vars

\* a run reaches, in its loop, the entry of a session that an earlier run is
\* still settling
C34_Witness ==
    /\ server.kind \in {"part_012", "route"}
    /\ server.sync # 0
    /\ nextEntry(server, server.sync) # 0
    /\ server.pending[nextEntry(server, server.sync)].settling
    /\ \E q \in 1 .. MaxRuns :
          /\ server.runs[q].at = "await"
          /\ server.runs[q].sid = server.pending[nextEntry(server, server.sync)].sid

\* ---------------------------------------------------------------------------
\* C35: in the service of part_012 a session whose receipts drop to zero is
\* evicted from the pending set: whenever no verify or settle is in flight, a
\* pending entry's receiptCount equals the number of receipts in the
\* facilitator's stored session record, and pendingSessions contains exactly
\* the sessions whose stored receipts are non-empty.
C35_PendingMatchesStoredReceipts ==
    (/\ server.kind = "part_012"
     /\ server.sync = 0
     /\ \A c \in Calls : pc[c] = "idle")
       => \A sid \in DOMAIN store :
             LET stored == IF store[sid] = 0 THEN 0 ELSE Len(heap[store[sid]].receipts)
                 i == pendingGet(server.pending, sid)
             IN /\ i # 0 <=> stored > 0
                /\ i # 0 => server.pending[i].receiptCount = stored

\* ---------------------------------------------------------------------------
\* C36: in the idle-time based example facilitator (facilitator.ts), whenever
\* no settle call is in flight every session whose stored record still holds
\* at least one accepted receipt is present in pendingSessions, so a receipt
\* accepted while a settle of its session was running is still picked up by a
\* later tick.
C36_StoredReceiptsStayPending ==
    (/\ server.kind = "example"
     /\ server.sync = 0
     /\ \A c \in Calls : pc[c] \notin SettlePcs)
       => \A sid \in DOMAIN store :
             (store[sid] # 0 /\ heap[store[sid]].receipts # << >>)
                => pendingGet(server.pending, sid) # 0

\* ---------------------------------------------------------------------------
\* C37: after shutdown of the facilitator service of route.ts has begun (stop()
\* was called), the background scheduler starts no new settle call; only
\* settles already in flight run to completion.
C37_NoSettleStartsAfterStop ==
    [][(server.kind = "route" /\ server.stopped)
          => ~ \/ last'.op = "settle" /\ pc' = pc
               \/ \E c \in Calls : pc[c] = "idle" /\ pc'[c] \in SettlePcs]_vars

====
